---------------------------- MODULE Spec2Model ----------------------------
(***************************************************************************)
(* A model of the analytic splashback pass of p-sim                        *)
(* (src/js/simulationEngine.js).                                           *)
(*                                                                         *)
(* Numbers.  The code computes in IEEE doubles; the model computes in      *)
(* exact integers on fixed grids:                                          *)
(*   - a length is an integer number of units, 2000 units = 1 mm, so the   *)
(*     gravity term 0.5 * 9.81 * (k/100)^2 m is exactly 981 * k^2 units;   *)
(*   - a speed is an integer number of mm/s;                               *)
(*   - sines and cosines of the sampled angles are in thousandths;         *)
(*   - a splashback factor (a number of [0, 1] in the code) is an exact    *)
(*     rational <<num, den>> in units of 1 / SinScale; Infinity is         *)
(*     <<1, 0>>.                                                           *)
(* A direction (a normalized vector of the code) is represented by any     *)
(* positive multiple of it, and a distance along a ray by its ratio to     *)
(* the length of the ray's segment.                                        *)
(***************************************************************************)
EXTENDS Integers, Sequences, FiniteSets, TLC

(***************************************************************************)
(* Arithmetic                                                              *)
(***************************************************************************)
Abs(a) == IF a < 0 THEN -a ELSE a

\* JS division of doubles, rounded towards zero onto the integer grid.
TDiv(a, b) == IF a >= 0 THEN a \div b ELSE -((-a) \div b)

RECURSIVE GCD(_, _)
GCD(a, b) == IF b = 0 THEN a ELSE GCD(b, a % b)

\* The rational n / d (d > 0) in lowest terms.
Rat(n, d) == LET g == GCD(Abs(n), d) IN <<n \div g, d \div g>>

Infinity == <<1, 0>>
RatZero == <<0, 1>>
IsFinite(a) == a[2] # 0

RatLess(a, b) ==
    IF ~IsFinite(a) THEN FALSE
    ELSE IF ~IsFinite(b) THEN TRUE
    ELSE a[1] * b[2] < b[1] * a[2]

RatLeq(a, b) == ~RatLess(b, a)

RatAdd(a, b) ==
    LET l == (a[2] \div GCD(a[2], b[2])) * b[2]
    IN  Rat(a[1] * (l \div a[2]) + b[1] * (l \div b[2]), l)

RatSub(a, b) == RatAdd(a, <<-b[1], b[2]>>)

\* a / n for an integer n > 0
RatDivInt(a, n) ==
    LET g == GCD(Abs(a[1]), n) IN <<a[1] \div g, a[2] * (n \div g)>>

\* a / b for b > 0
RatDiv(a, b) ==
    LET g1 == GCD(Abs(a[1]), b[1])
        g2 == GCD(a[2], b[2])
    IN  IF a[1] = 0 THEN RatZero
        ELSE <<(a[1] \div g1) * (b[2] \div g2), (a[2] \div g2) * (b[1] \div g1)>>

(***************************************************************************)
(* THREE.Vector3                                                           *)
(***************************************************************************)
Vector3(x, y, z) == [x |-> x, y |-> y, z |-> z]
subVectors(a, b) == Vector3(a.x - b.x, a.y - b.y, a.z - b.z)
addVectors(a, b) == Vector3(a.x + b.x, a.y + b.y, a.z + b.z)
dot(a, b) == a.x * b.x + a.y * b.y + a.z * b.z
MaxAbs(v) ==
    LET m == IF Abs(v.x) > Abs(v.y) THEN Abs(v.x) ELSE Abs(v.y)
    IN  IF m > Abs(v.z) THEN m ELSE Abs(v.z)

(***************************************************************************)
(* Physics constants (simulationEngine.js lines 5-6)                       *)
(***************************************************************************)
\* 9.81 m/s^2, in cm/s^2
GRAVITY == 981
ANGULAR_RESOLUTION == 20

\* The resolution of a splashback factor: 1.0 of the code is SinScale.
SinScale == 100

(***************************************************************************)
(* calculateTrajectory (lines 221-239)                                     *)
(*                                                                         *)
(* The k-th iteration of `for (t = 0; t <= maxTime; t += timeStep)` has    *)
(* t = k * 0.01 up to the rounding of the repeated addition.  The          *)
(* rounding decides the last iteration: after 200 additions of 0.01 the    *)
(* double t is 2.0000000000000013 > maxTime, so the body runs for          *)
(* k = 0 .. 199 (t = 0 .. 1.99) and never for t = 2.0.                     *)
(***************************************************************************)
\* the time cap 0.4 s late
LastStepLate == 199 + 40

LastStep == 199

\* The position at the k-th time step: start + v t - (0, g t^2 / 2, 0).
PositionAt(startPoint, initialVelocity, k) ==
    Vector3(startPoint.x + initialVelocity.x * k * 20,
            startPoint.y + initialVelocity.y * k * 20 - GRAVITY * k * k,
            startPoint.z + initialVelocity.z * k * 20)

\* TrajectoryBody without the `break`
TrajectoryBodyNoBreak(startPoint, initialVelocity, st) ==
    [k |-> st.k + 1,
     points |-> Append(st.points, PositionAt(startPoint, initialVelocity, st.k)),
     done |-> FALSE]

\* Lines 227-235, one iteration: from the loop's state [k, points, done]
\* (done: the loop was left by `break`) to the next.
TrajectoryBody(startPoint, initialVelocity, st) ==
    LET p == PositionAt(startPoint, initialVelocity, st.k)
    IN  [k |-> st.k + 1, points |-> Append(st.points, p), done |-> p.y < 0]

\* The next n iterations of the loop, or those up to its end.  (The halving
\* only keeps the evaluation shallow: the iterations run in order.)
RECURSIVE TrajectoryLoop(_, _, _, _)
TrajectoryLoop(startPoint, initialVelocity, st, n) ==
    IF n = 0 \/ st.done \/ st.k > LastStep THEN st
    ELSE IF n = 1 THEN TrajectoryBody(startPoint, initialVelocity, st)
    ELSE TrajectoryLoop(startPoint, initialVelocity,
                        TrajectoryLoop(startPoint, initialVelocity, st, n \div 2),
                        n - n \div 2)

calculateTrajectory(startPoint, initialVelocity) ==
    TrajectoryLoop(startPoint, initialVelocity,
                   [k |-> 0, points |-> <<>>, done |-> FALSE],
                   LastStep + 1).points

(***************************************************************************)
(* findIntersection (lines 242-278)                                        *)
(***************************************************************************)
\* THREE.Plane(normal, constant)
Plane(normal, constant) == [normal |-> normal, constant |-> constant]

\* THREE.Ray(origin, direction).  direction stands for the unit vector
\* direction / |direction|; it is the zero vector when the segment has no
\* length, as Vector3.normalize() leaves the zero vector unchanged.
Ray(origin, direction) == [origin |-> origin, direction |-> direction]

\* Plane.distanceToPoint
distanceToPoint(plane, point) == dot(plane.normal, point) + plane.constant

\* null where the code has a number
NullNumber == <<0, 0>>

\* distanceToPlane for rays that meet the front of the plane only
distanceToPlaneFrontOnly(ray, plane) ==
    LET denominator == dot(plane.normal, ray.direction)
        numerator == -distanceToPoint(plane, ray.origin)
    IN  IF denominator >= 0 THEN NullNumber
        ELSE IF numerator <= 0 THEN <<-numerator, -denominator>>
        ELSE NullNumber

\* Ray.distanceToPlane: null, or the distance t >= 0 along the ray, as the
\* rational <<num, den>> of t / |ray.direction|.
distanceToPlane(ray, plane) ==
    LET denominator == dot(plane.normal, ray.direction)
        numerator == -distanceToPoint(plane, ray.origin)
    IN  IF denominator = 0
        THEN IF distanceToPoint(plane, ray.origin) = 0 THEN <<0, 1>> ELSE NullNumber
        ELSE LET t == IF denominator > 0 THEN <<numerator, denominator>>
                      ELSE <<-numerator, -denominator>>
             IN  IF t[1] >= 0 THEN t ELSE NullNumber

\* HitInSegment accepting a distance of 0
HitInSegmentNotStrict(intersectionDistance) ==
    /\ intersectionDistance # NullNumber
    /\ intersectionDistance[1] >= 0
    /\ intersectionDistance[1] <= intersectionDistance[2]

\* intersectionDistance > 0 && intersectionDistance <= p1.distanceTo(p2),
\* the distance being in units of p1.distanceTo(p2).
HitInSegment(intersectionDistance) ==
    /\ intersectionDistance # NullNumber
    /\ intersectionDistance[1] > 0
    /\ intersectionDistance[1] <= intersectionDistance[2]

\* Vector3.normalize() on the fixed-point grid: the direction of v with
\* components of at most 256 in absolute value.
normalize(v) ==
    LET s == (MaxAbs(v) \div 256) + 1
    IN  Vector3(TDiv(v.x, s), TDiv(v.y, s), TDiv(v.z, s))

\* sin^2(acos(|d . n|)) = 1 - (d . n)^2 for unit vectors d and n, in units of
\* 1 / SinScale; d and n are given as directions.
SinSquaredIncident(rayDirection, faceNormal) ==
    LET d == normalize(rayDirection)
        dn == dot(d, faceNormal)
        dd == dot(d, d)
        nn == dot(faceNormal, faceNormal)
    IN  IF dd * nn = 0 THEN SinScale
        ELSE (SinScale * (dd * nn - dn * dn)) \div (dd * nn)

\* The result of findIntersection: null (found is FALSE), or the hit: the
\* segment (1 is the first), the crossing distance, and the incident angle
\* given by its squared sine.
NullIntersection ==
    [found |-> FALSE, segment |-> 0, distance |-> NullNumber, incidentAngle |-> 0]

\* Lines 247-274, one iteration: from the loop's state [i, result] (i counts
\* points from 1; result.found: the loop was left by `return`) to the next.
IntersectionBody(points, facePoint, faceNormal, st) ==
    LET p1 == points[st.i - 1]
        p2 == points[st.i]
        rayDirection == subVectors(p2, p1)
        ray == Ray(p1, rayDirection)
        plane == Plane(faceNormal, -dot(faceNormal, facePoint))
        intersectionDistance == distanceToPlane(ray, plane)
    IN  [i |-> st.i + 1,
         result |->
             IF HitInSegment(intersectionDistance)
             THEN [found |-> TRUE,
                   segment |-> st.i - 1,
                   distance |-> intersectionDistance,
                   incidentAngle |-> SinSquaredIncident(rayDirection, faceNormal)]
             ELSE NullIntersection]

RECURSIVE IntersectionLoop(_, _, _, _, _)
IntersectionLoop(points, facePoint, faceNormal, st, n) ==
    IF n = 0 \/ st.result.found \/ st.i > Len(points) THEN st
    ELSE IF n = 1 THEN IntersectionBody(points, facePoint, faceNormal, st)
    ELSE IntersectionLoop(points, facePoint, faceNormal,
                          IntersectionLoop(points, facePoint, faceNormal, st,
                                           n \div 2),
                          n - n \div 2)

findIntersection(points, facePoint, faceNormal) ==
    IF Len(points) < 2 THEN NullIntersection
    ELSE IntersectionLoop(points, facePoint, faceNormal,
                          [i |-> 2, result |-> NullIntersection],
                          Len(points)).result


(***************************************************************************)
(* calculateFaceSplashback (lines 182-218)                                 *)
(*                                                                         *)
(* phi counts steps of 2 pi / ANGULAR_RESOLUTION and theta steps of        *)
(* pi / 12: `phi < 2 pi` is phi < ANGULAR_RESOLUTION, theta starts at 2    *)
(* (pi / 6) and `theta < pi / 3` is theta < 4.  The doubles agree: the     *)
(* accumulated phi reaches 2 pi exactly after 20 additions and the         *)
(* accumulated theta reaches pi / 3 exactly after 2.                       *)
(***************************************************************************)
\* cos and sin of phi * 2 pi / 20, in thousandths
CosPhiTable ==
    <<1000, 951, 809, 588, 309, 0, -309, -588, -809, -951,
      -1000, -951, -809, -588, -309, 0, 309, 588, 809, 951>>
SinPhiTable ==
    <<0, 309, 588, 809, 951, 1000, 951, 809, 588, 309,
      0, -309, -588, -809, -951, -1000, -951, -809, -588, -309>>
CosPhi(phi) == CosPhiTable[phi + 1]
SinPhi(phi) == SinPhiTable[phi + 1]
\* cos and sin of theta * pi / 12 for theta = 2 (pi / 6), 3 (pi / 4)
CosTheta(theta) == IF theta = 2 THEN 866 ELSE 707
SinTheta(theta) == IF theta = 2 THEN 500 ELSE 707

\* Lines 190-194: the initial velocity vector, in mm/s.
InitialVelocityVector(initialVelocity, phi, theta) ==
    LET horizontal == TDiv(initialVelocity * SinTheta(theta), 1000)
    IN  Vector3(TDiv(horizontal * CosPhi(phi), 1000),
                TDiv(initialVelocity * CosTheta(theta), 1000),
                TDiv(horizontal * SinPhi(phi), 1000))

\* SampleBody with every trajectory counted, hit or not
SampleBodyCountAll(acc, source, facePoint, faceNormal, initialVelocity, phi, theta) ==
    LET initialVelocityVector == InitialVelocityVector(initialVelocity, phi, theta)
        points == calculateTrajectory(source, initialVelocityVector)
        hit == findIntersection(points, facePoint, faceNormal)
    IN  [totalSplashback |->
             IF hit.found THEN acc.totalSplashback + hit.incidentAngle
             ELSE acc.totalSplashback,
         sampleCount |-> acc.sampleCount + 1,
         initialVelocityVector |-> initialVelocityVector,
         trajectoryPoints |-> points,
         intersection |-> hit]

\* Lines 189-212: the body of the inner loop, from the running
\* [totalSplashback, sampleCount] to the next.
SampleBody(acc, source, facePoint, faceNormal, initialVelocity, phi, theta) ==
    LET initialVelocityVector == InitialVelocityVector(initialVelocity, phi, theta)
        points == calculateTrajectory(source, initialVelocityVector)
        hit == findIntersection(points, facePoint, faceNormal)
    IN  [totalSplashback |->
             IF hit.found THEN acc.totalSplashback + hit.incidentAngle
             ELSE acc.totalSplashback,
         sampleCount |->
             IF hit.found THEN acc.sampleCount + 1 ELSE acc.sampleCount,
         initialVelocityVector |-> initialVelocityVector,
         trajectoryPoints |-> points,
         intersection |-> hit]

\* the inner loop with pi / 3 included
ThetaEndInclusive == 4 + 1

\* `theta < Math.PI / 3`, in steps of pi / 12
ThetaEnd == 4

\* `theta += pi / 12`, and `phi += ...` with theta starting over when the
\* inner loop ends.
NextPhi(phi, theta) == IF theta + 1 < ThetaEnd THEN phi ELSE phi + 1
NextTheta(phi, theta) == IF theta + 1 < ThetaEnd THEN theta + 1 ELSE 2

\* Line 217
FaceReturnValue(totalSplashback, sampleCount) ==
    IF sampleCount > 0 THEN Rat(totalSplashback, sampleCount) ELSE RatZero

\* The next n iterations of the nested loops from their state
\* [phi, theta, acc], or those up to their end.
RECURSIVE FaceLoop(_, _, _, _, _, _)
FaceLoop(st, source, facePoint, faceNormal, initialVelocity, n) ==
    IF n = 0 \/ ~(st.phi < ANGULAR_RESOLUTION) THEN st
    ELSE IF n = 1
    THEN [phi |-> NextPhi(st.phi, st.theta),
          theta |-> NextTheta(st.phi, st.theta),
          acc |-> SampleBody(st.acc, source, facePoint, faceNormal,
                             initialVelocity, st.phi, st.theta)]
    ELSE FaceLoop(FaceLoop(st, source, facePoint, faceNormal, initialVelocity,
                           n \div 2),
                  source, facePoint, faceNormal, initialVelocity, n - n \div 2)

calculateFaceSplashback(source, facePoint, faceNormal, initialVelocity) ==
    LET end == FaceLoop([phi |-> 0, theta |-> 2,
                         acc |-> [totalSplashback |-> 0, sampleCount |-> 0]],
                        source, facePoint, faceNormal, initialVelocity,
                        (ThetaEnd - 2) * ANGULAR_RESOLUTION)
    IN  FaceReturnValue(end.acc.totalSplashback, end.acc.sampleCount)

\* Line 11: forceValue / 10 m/s, in mm/s.
InitialVelocity(forceValue) == forceValue * 100

(***************************************************************************)
(* State                                                                   *)
(***************************************************************************)
VARIABLES
    sourcePoint,            \* the source point, in units
    forceValue,             \* the force value of the run
    \* one call of calculateFaceSplashback, iteration by iteration
    fpc,                    \* "sampling", "returned"; "idle" outside the call
    facePoint, faceNormal,  \* its arguments
    phi, theta,             \* its loop counters
    totalSplashbackF,       \* its totalSplashback
    sampleCount,
    initialVelocityVector,  \* of the last iteration
    trajectoryPoints,       \* of the last iteration
    intersection,           \* of the last iteration
    samples,                \* history: what each iteration so far sampled
    faceSplashback,         \* the value returned
    \* one call of simulateSplashback, face by face
    pc,                     \* "running", "returned"; "idle" outside the call
    model,                  \* the meshes model.traverse finds, in order
    meshIndex,              \* the mesh the outer loop is at (from 1)
    i,                      \* the face the inner loop is at (from 0)
    results,
    totalSplashback,
    faceCount,
    \* SimulationRunner.runSimulation, run after run on the same model
    runNumber,              \* the number of the run (from 1)
    firstResults,           \* history: what the first run returned
    colorAttribute,         \* per mesh, geometry.attributes.color once set
    \* SourcePointManager
    isDragging,
    selectedArrow,          \* "x-arrow", "y-arrow", "z-arrow", or "null"
    controlsEnabled,        \* controls.enabled of the orbit controls
    loadingOverlay,         \* style.display of #loading-overlay
    \* FluidSimulation
    particles,              \* this.particles
    collisions,             \* what the last update() returned
    flowRate,
    lastEmitSet,            \* lastEmitTime is not 0
    timeSinceLastEmit,      \* the clock less lastEmitTime, in frames
    \* HeatmapVisualizer
    targetModel,            \* "model", or "null"
    heatmapData,            \* key -> [intensity, hits]
    maxIntensity,           \* in thousandths
    needsFullRecalculation,
    updateCounter,
    userControls,           \* userPosition and userDirection
    heatmapTexture,         \* uuid -> userData.heatmapTexture
    fallbackMaterial,       \* uuid -> userData.fallbackMaterial.color
    frameQueue,             \* meshes of the requestAnimationFrame callbacks
    \* the colour ramp of updateFallbackMaterial on its own
    normalizedIntensity,
    materialColor,
    rampApplied,
    \* UIController and SceneManager
    currentModel,           \* "A", "B", or "null"
    pendingLoads,           \* the files whose load is in flight, in order
    lastSelected,           \* history: the file selected last
    loadedLast,             \* history: its load has been resolved
    timers,                 \* per pending setTimeout, the model it holds
    stats,                  \* innerHTML of #stats
    runnerInputs,           \* history: what the two calls of the last
                            \* SimulationRunner.runSimulation did
    runnerResult            \* history: what it returned or threw

simVars == <<pc, model, meshIndex, i, results, totalSplashback, faceCount>>
faceVars == <<fpc, facePoint, faceNormal, phi, theta, totalSplashbackF,
              sampleCount, initialVelocityVector, trajectoryPoints,
              intersection, samples, faceSplashback>>
runnerVars == <<runNumber, firstResults, colorAttribute>>
dragVars == <<isDragging, selectedArrow, controlsEnabled, loadingOverlay>>
fluidVars == <<particles, collisions, flowRate, lastEmitSet,
               timeSinceLastEmit>>
vizVars == <<targetModel, heatmapData, maxIntensity, needsFullRecalculation,
             updateCounter, userControls, heatmapTexture, fallbackMaterial,
             frameQueue>>
rampVars == <<normalizedIntensity, materialColor, rampApplied>>
uiVars == <<currentModel, pendingLoads, lastSelected, loadedLast, timers,
            stats, runnerInputs, runnerResult>>
restVars == <<fluidVars, vizVars, rampVars, uiVars>>
vars == <<sourcePoint, forceValue, faceVars, simVars, runnerVars, dragVars,
          restVars>>

\* a point given in millimetres
Millimetres(x, y, z) == Vector3(x * 2000, y * 2000, z * 2000)

(***************************************************************************)
(* Inputs.  Source points lie in the cube [-5 m, 5 m]^3 of                 *)
(* SourcePointManager.clampPosition, force values in the slider's range    *)
(* 1 .. 100.                                                               *)
(***************************************************************************)
SourcePoints ==
    { Millimetres(0, 0, 0), Millimetres(0, -1000, 0), Millimetres(0, 5000, 0),
      Millimetres(-5000, -5000, 5000), Millimetres(300, 100, -200) }
ForceValues == {1, 10, 50, 100}
\* planes of faces: <<centroid, averaged normal>>
FacePlanes ==
    { <<Millimetres(0, 1000, 0), Vector3(0, 1, 0)>>,
      <<Millimetres(0, 500, 0), Vector3(0, 3, 0)>>,
      <<Millimetres(1000, 500, 0), Vector3(-1, 0, 0)>>,
      <<Millimetres(200, 100, 100), Vector3(1, 2, 0)>>,
      <<Millimetres(0, 20, 0), Vector3(1, 1, -1)>>,
      <<Millimetres(0, 0, 0), Vector3(0, 1, 0)>>,
      <<Millimetres(0, 500, 0), Vector3(0, 0, 0)>> }

FaceIdle ==
    /\ fpc = "idle"
    /\ facePoint = Vector3(0, 0, 0)
    /\ faceNormal = Vector3(0, 0, 0)
    /\ phi = 0 /\ theta = 2
    /\ totalSplashbackF = 0 /\ sampleCount = 0
    /\ initialVelocityVector = Vector3(0, 0, 0)
    /\ trajectoryPoints = <<>>
    /\ intersection = NullIntersection
    /\ samples = <<>>
    /\ faceSplashback = NullNumber

\* line 14-20
NewResults ==
    [faceData |-> <<>>,
     vertexData |-> <<>>,
     minSplashback |-> Infinity,
     maxSplashback |-> RatZero,
     averageSplashback |-> RatZero]

SimIdle ==
    /\ pc = "idle"
    /\ model = <<>>
    /\ meshIndex = 1 /\ i = 0
    /\ results = NewResults
    /\ totalSplashback = RatZero
    /\ faceCount = 0

\* no run has ended, no mesh has colours
RunnerIdle ==
    /\ runNumber = 1
    /\ firstResults = NewResults
    /\ colorAttribute = <<>>

\* lines 17-18 of sourcePointManager.js
DragIdle ==
    /\ isDragging = FALSE
    /\ selectedArrow = "null"
    /\ controlsEnabled = TRUE
    /\ loadingOverlay = "none"

\* lines 242-264 of sourcePointManager.js
FluidIdle ==
    /\ particles = <<>>
    /\ collisions = <<>>
    /\ flowRate = 50
    /\ lastEmitSet = FALSE
    /\ timeSinceLastEmit = 0

\* lines 2-14 of heatmapVisualizer.js
VizIdle ==
    /\ targetModel = "null"
    /\ heatmapData = <<>>
    /\ maxIntensity = 1000
    /\ needsFullRecalculation = TRUE
    /\ updateCounter = 0
    /\ userControls = "initial"
    /\ heatmapTexture = <<>>
    /\ fallbackMaterial = <<>>
    /\ frameQueue = {}

\* no colour has been asked of the ramp
RampIdle ==
    /\ normalizedIntensity = <<0, 1>>
    /\ materialColor = [r |-> <<0, 1>>, g |-> <<0, 1>>, b |-> <<1, 1>>]
    /\ rampApplied = FALSE

\* no file has been selected and no run asked for
UiIdle ==
    /\ currentModel = "null"
    /\ pendingLoads = <<>>
    /\ lastSelected = "null"
    /\ loadedLast = FALSE
    /\ timers = <<>>
    /\ stats = <<>>
    /\ runnerInputs = <<>>
    /\ runnerResult = [returned |-> "undefined",
                       thrown |-> [threw |-> FALSE, type |-> "",
                                   message |-> <<>>]]

RestIdle ==
    /\ FluidIdle
    /\ VizIdle
    /\ RampIdle
    /\ UiIdle

(***************************************************************************)
(* SpecFace: one call calculateFaceSplashback(sourcePoint, facePoint,      *)
(* faceNormal, forceValue / 10).                                           *)
(***************************************************************************)
InitFace ==
    /\ sourcePoint \in SourcePoints
    /\ forceValue \in ForceValues
    /\ \E f \in FacePlanes : facePoint = f[1] /\ faceNormal = f[2]
    /\ fpc = "sampling"
    /\ phi = 0 /\ theta = 2
    /\ totalSplashbackF = 0 /\ sampleCount = 0
    /\ initialVelocityVector = Vector3(0, 0, 0)
    /\ trajectoryPoints = <<>>
    /\ intersection = NullIntersection
    /\ samples = <<>>
    /\ faceSplashback = NullNumber
    /\ SimIdle
    /\ RunnerIdle
    /\ DragIdle
    /\ RestIdle

\* One iteration of the inner loop (lines 188-213).
FaceSample ==
    /\ fpc = "sampling"
    /\ phi < ANGULAR_RESOLUTION
    /\ \E next \in {SampleBody([totalSplashback |-> totalSplashbackF,
                                sampleCount |-> sampleCount],
                               sourcePoint, facePoint, faceNormal,
                               InitialVelocity(forceValue), phi, theta)} :
           /\ totalSplashbackF' = next.totalSplashback
           /\ sampleCount' = next.sampleCount
           /\ initialVelocityVector' = next.initialVelocityVector
           /\ trajectoryPoints' = next.trajectoryPoints
           /\ intersection' = next.intersection
           /\ samples' = Append(samples,
                   [phi |-> phi, theta |-> theta,
                    found |-> next.intersection.found,
                    factor |-> next.intersection.incidentAngle])
    /\ phi' = NextPhi(phi, theta)
    /\ theta' = NextTheta(phi, theta)
    /\ UNCHANGED <<restVars, sourcePoint, forceValue, fpc, facePoint, faceNormal,
                   faceSplashback, simVars, runnerVars, dragVars>>

\* The loops are over: line 217.
FaceReturn ==
    /\ fpc = "sampling"
    /\ ~(phi < ANGULAR_RESOLUTION)
    /\ faceSplashback' = FaceReturnValue(totalSplashbackF, sampleCount)
    /\ fpc' = "returned"
    /\ UNCHANGED <<restVars, sourcePoint, forceValue, facePoint, faceNormal, phi, theta,
                   totalSplashbackF, sampleCount, initialVelocityVector,
                   trajectoryPoints, intersection, samples, simVars,
                   runnerVars, dragVars>>

NextFace == FaceSample \/ FaceReturn
SpecFace == InitFace /\ [][NextFace]_vars


(***************************************************************************)
(* simulateSplashback (lines 9-118)                                        *)
(*                                                                         *)
(* A mesh is [position, normal, indexed, index]: the position and normal   *)
(* attributes (one entry per vertex, positions in millimetres), and the    *)
(* index array when geometry.index is set.  Vertex indices count from 0    *)
(* as in the code.  mesh.matrixWorld is the identity, and every vertex     *)
(* normal is a unit axis vector or the zero vector, which                  *)
(* transformDirection leaves as it is.                                     *)
(***************************************************************************)
\* line 44
MeshFaceCount(mesh) ==
    IF mesh.indexed THEN Len(mesh.index) \div 3 ELSE Len(mesh.position) \div 3

\* line 56, for j = 0, 1, 2
VertexIndex(mesh, face, j) ==
    IF mesh.indexed THEN mesh.index[face * 3 + j + 1] ELSE face * 3 + j

VertexIndices(mesh, face) == [j \in 1..3 |-> VertexIndex(mesh, face, j - 1)]

\* lines 59-61, 68: the world position of a vertex, in units
VertexPosition(mesh, vertexIndex) ==
    LET p == mesh.position[vertexIndex + 1] IN Millimetres(p.x, p.y, p.z)

\* lines 64-66, 69
VertexNormal(mesh, vertexIndex) == mesh.normal[vertexIndex + 1]

\* line 76
Centroid(mesh, face) ==
    LET v == VertexIndices(mesh, face)
        sum == addVectors(addVectors(VertexPosition(mesh, v[1]),
                                     VertexPosition(mesh, v[2])),
                          VertexPosition(mesh, v[3]))
    IN  Vector3(TDiv(sum.x, 3), TDiv(sum.y, 3), TDiv(sum.z, 3))

\* FaceNormal from the first vertex alone
FaceNormalFirstVertex(mesh, face) ==
    VertexNormal(mesh, VertexIndices(mesh, face)[1])

\* line 79: the direction of the normalized sum
FaceNormal(mesh, face) ==
    LET v == VertexIndices(mesh, face)
    IN  addVectors(addVectors(VertexNormal(mesh, v[1]), VertexNormal(mesh, v[2])),
                   VertexNormal(mesh, v[3]))

\* lines 97-106: one pass of the loop over the face's vertices
AddToVertex(vertexData, vertexIndex, value) ==
    LET old == IF vertexIndex \in DOMAIN vertexData THEN vertexData[vertexIndex]
               ELSE [splashbackTotal |-> RatZero, faceCount |-> 0,
                     averageSplashback |-> NullNumber,
                     color |-> [r |-> NullNumber, g |-> NullNumber,
                                b |-> NullNumber]]
        new == [old EXCEPT !.splashbackTotal = RatAdd(old.splashbackTotal, value),
                           !.faceCount = old.faceCount + 1]
    IN  [k \in DOMAIN vertexData \cup {vertexIndex} |->
            IF k = vertexIndex THEN new ELSE vertexData[k]]

\* lines 95-107
AddToVertices(vertexData, vertexIndices, value) ==
    AddToVertex(AddToVertex(AddToVertex(vertexData, vertexIndices[1], value),
                            vertexIndices[2], value),
                vertexIndices[3], value)

\* StoreFace with the maximum never raised
StoreFaceMaxKept(res, face, value) ==
    [res EXCEPT
        !.faceData = Append(@, face),
        !.minSplashback = IF RatLess(value, @) THEN value ELSE @]

\* StoreFace with the faces' values running on from face to face
StoreFaceRunningOn(res, face, value) ==
    LET before == IF res.faceData = <<>> THEN RatZero
                  ELSE res.faceData[Len(res.faceData)].splashback
        running == IF RatLess(before, value) THEN value ELSE before
    IN  [res EXCEPT
            !.faceData = Append(@, [face EXCEPT !.splashback = running]),
            !.minSplashback = IF RatLess(running, @) THEN running ELSE @,
            !.maxSplashback = IF RatLess(@, running) THEN running ELSE @]

\* lines 84-90: the face is stored and the statistics follow it
StoreFace(res, face, value) ==
    [res EXCEPT
        !.faceData = Append(@, face),
        !.minSplashback = IF RatLess(value, @) THEN value ELSE @,
        !.maxSplashback = IF RatLess(@, value) THEN value ELSE @]

\* VertexColor without the inversion of the gradient
VertexColorNotInverted(res, averageSplashback) ==
    LET normalizedValue ==
            IF RatLess(res.minSplashback, res.maxSplashback)
            THEN RatDiv(RatSub(averageSplashback, res.minSplashback),
                        RatSub(res.maxSplashback, res.minSplashback))
            ELSE RatZero
    IN  [r |-> normalizedValue, g |-> RatZero,
         b |-> RatSub(<<1, 1>>, normalizedValue)]

\* lines 130-147: the colour of one vertex
VertexColor(res, averageSplashback) ==
    LET normalizedValue ==
            IF RatLess(res.minSplashback, res.maxSplashback)
            THEN RatDiv(RatSub(averageSplashback, res.minSplashback),
                        RatSub(res.maxSplashback, res.minSplashback))
            ELSE RatZero
        inverted == RatSub(<<1, 1>>, normalizedValue)
    IN  [r |-> inverted, g |-> RatZero, b |-> RatSub(<<1, 1>>, inverted)]

\* VertexAverage with the total in place of the mean
VertexAverageTotal(vertexInfo) == vertexInfo.splashbackTotal

\* lines 123-127
VertexAverage(vertexInfo) ==
    IF vertexInfo.faceCount > 0
    THEN RatDivInt(vertexInfo.splashbackTotal, vertexInfo.faceCount)
    ELSE RatZero

\* lines 121-148
calculateVertexColors(res) ==
    [res EXCEPT !.vertexData =
        [k \in DOMAIN res.vertexData |->
            LET average == VertexAverage(res.vertexData[k])
            IN  [res.vertexData[k] EXCEPT
                    !.averageSplashback = average,
                    !.color = VertexColor(res, average)]]]

(***************************************************************************)
(* The meshes of the models                                                *)
(***************************************************************************)
P(x, y, z) == Vector3(x, y, z)
Up == Vector3(0, 1, 0)
West == Vector3(-1, 0, 0)
East == Vector3(1, 0, 0)
Zero == Vector3(0, 0, 0)

\* one horizontal triangle 2 cm above the ground, not indexed
MeshFloor ==
    [position |-> <<P(-100, 20, -100), P(100, 20, -100), P(0, 20, 100)>>,
     normal |-> <<Up, Up, Up>>,
     indexed |-> FALSE, index |-> <<>>]
\* two triangles that share the edge of vertices 0 and 2, indexed; the
\* second leans, as the normal of vertex 3 points up
MeshWall ==
    [position |-> <<P(200, 0, -100), P(200, 0, 100), P(200, 200, 100),
                    P(200, 200, -100)>>,
     normal |-> <<West, West, West, Up>>,
     indexed |-> TRUE, index |-> <<0, 1, 2, 0, 2, 3>>]
\* one triangle whose vertex normals sum to the zero vector
MeshDegenerate ==
    [position |-> <<P(0, 50, 0), P(100, 50, 0), P(0, 50, 100)>>,
     normal |-> <<East, West, Zero>>,
     indexed |-> FALSE, index |-> <<>>]
\* one horizontal triangle 2 cm above the ground and 4 m to the east
MeshFar ==
    [position |-> <<P(4000, 20, -100), P(4200, 20, -100), P(4100, 20, 100)>>,
     normal |-> <<Up, Up, Up>>,
     indexed |-> FALSE, index |-> <<>>]
\* a mesh without triangles
MeshEmpty ==
    [position |-> <<>>, normal |-> <<>>, indexed |-> FALSE, index |-> <<>>]

MeshPool == {MeshFloor, MeshWall, MeshDegenerate, MeshFar, MeshEmpty}

\* the most meshes of a model
MaxMeshes == 2

RECURSIVE SeqsUpTo(_, _)
SeqsUpTo(S, n) ==
    IF n = 0 THEN {<<>>}
    ELSE LET shorter == SeqsUpTo(S, n - 1)
         IN  shorter \cup {Append(q, e) : q \in shorter, e \in S}

Models == SeqsUpTo(MeshPool, MaxMeshes)

\* <<source point, force value>> of the runs
Runs ==
    { <<Millimetres(0, 0, 0), 50>>,
      <<Millimetres(0, 0, 0), 10>>,
      <<Millimetres(300, 100, -200), 30>> }

(***************************************************************************)
(* Spec: one call simulateSplashback(model, sourcePoint, forceValue)       *)
(***************************************************************************)
Init ==
    /\ \E run \in Runs : sourcePoint = run[1] /\ forceValue = run[2]
    /\ model \in Models
    /\ pc = "running"
    /\ meshIndex = 1 /\ i = 0
    /\ results = NewResults
    /\ totalSplashback = RatZero
    /\ faceCount = 0
    /\ FaceIdle
    /\ RunnerIdle
    /\ DragIdle
    /\ RestIdle

\* One iteration of the loop over the faces of a mesh (lines 46-108).
ProcessFace ==
    /\ pc = "running"
    /\ meshIndex <= Len(model)
    /\ i < MeshFaceCount(model[meshIndex])
    /\ \E value \in {calculateFaceSplashback(sourcePoint,
                                              Centroid(model[meshIndex], i),
                                              FaceNormal(model[meshIndex], i),
                                              InitialVelocity(forceValue))} :
       LET mesh == model[meshIndex]
           vertexIndices == VertexIndices(mesh, i)
           face == [index |-> i, splashback |-> value,
                    vertices |-> [j \in 1..3 |->
                                      mesh.position[vertexIndices[j] + 1]]]
           stored == StoreFace(results, face, value)
       IN  /\ results' = [stored EXCEPT !.vertexData =
                              AddToVertices(@, vertexIndices, value)]
           /\ totalSplashback' = RatAdd(totalSplashback, value)
    /\ faceCount' = faceCount + 1
    /\ i' = i + 1
    /\ UNCHANGED <<restVars, sourcePoint, forceValue, faceVars, pc, model, meshIndex,
                   runnerVars, dragVars>>

\* The faces of a mesh are done: the loop over the meshes goes on (line 34).
NextMesh ==
    /\ pc = "running"
    /\ meshIndex <= Len(model)
    /\ ~(i < MeshFaceCount(model[meshIndex]))
    /\ meshIndex' = meshIndex + 1
    /\ i' = 0
    /\ UNCHANGED <<restVars, sourcePoint, forceValue, faceVars, pc, model, results,
                   totalSplashback, faceCount, runnerVars, dragVars>>

\* The meshes are done (lines 111-117).
Return ==
    /\ pc = "running"
    /\ meshIndex > Len(model)
    /\ results' = calculateVertexColors(
                      [results EXCEPT !.averageSplashback =
                           IF faceCount > 0
                           THEN RatDivInt(totalSplashback, faceCount)
                           ELSE RatZero])
    /\ pc' = "returned"
    /\ UNCHANGED <<restVars, sourcePoint, forceValue, faceVars, model, meshIndex, i,
                   totalSplashback, faceCount, runnerVars, dragVars>>

Next == ProcessFace \/ NextMesh \/ Return
Spec == Init /\ [][Next]_vars


(***************************************************************************)
(* HeatmapGenerator (heatmapGenerator.js)                                  *)
(*                                                                         *)
(* A colour component is a number as a ratio <<num, den>>: NaN is <<0, 0>> *)
(* and the infinities are <<1, 0>> and <<-1, 0>>.  The rounding of the     *)
(* Float32Array that holds the colours is left out.                        *)
(***************************************************************************)
NaN == <<0, 0>>
MinusInfinity == <<-1, 0>>

\* a / b of finite numbers, b >= 0, as JS divides: 0 / 0 is NaN and
\* a / 0 an infinity
DivideNumbers(a, b) ==
    IF b[1] # 0 THEN RatDiv(a, b)
    ELSE IF a[1] = 0 THEN NaN
    ELSE IF a[1] > 0 THEN Infinity ELSE MinusInfinity

\* value * 2
TimesTwo(value) ==
    IF IsFinite(value) THEN Rat(2 * value[1], value[2]) ELSE value

\* lines 158-170; a comparison with NaN is false
setHeatmapThreeColor(value) ==
    IF value = MinusInfinity \/ (IsFinite(value) /\ RatLess(value, <<1, 2>>))
    THEN [r |-> TimesTwo(value), g |-> <<1, 1>>, b |-> RatZero]
    ELSE [r |-> <<1, 1>>,
          g |-> IF value = NaN THEN NaN
                ELSE IF value = Infinity THEN MinusInfinity
                ELSE RatSub(<<2, 1>>, TimesTwo(value)),
          b |-> RatZero]

\* lines 101-104: the colour attribute as created, one colour per vertex
NewColors(mesh) ==
    [v \in 0..(Len(mesh.position) - 1) |->
        [r |-> RatZero, g |-> RatZero, b |-> RatZero]]

\* faceData.find(f => f.index === i): the place in faceData of the first
\* entry with this index, 0 when there is none
FindFace(faceData, index) ==
    LET found == {k \in 1..Len(faceData) : faceData[k].index = index}
    IN  IF found = {} THEN 0
        ELSE CHOOSE k \in found : \A other \in found : k <= other

\* lines 115-131 (indexed) and 135-151 (not indexed): one iteration
ColorFace(mesh, colors, faceData, minValue, maxValue, face) ==
    LET k == FindFace(faceData, face)
        normalizedValue ==
            DivideNumbers(RatSub(faceData[k].splashback, minValue),
                          RatSub(maxValue, minValue))
        color == setHeatmapThreeColor(normalizedValue)
        vertexIndices == VertexIndices(mesh, face)
    IN  IF k = 0 THEN colors
        ELSE [v \in DOMAIN colors |->
                 IF \E j \in 1..3 : vertexIndices[j] = v THEN color
                 ELSE colors[v]]

\* the loop over the faces of the mesh, from face on (the meshes have whole
\* triangles: indices.length / 3 is the number of faces)
RECURSIVE ColorFaces(_, _, _, _, _, _)
ColorFaces(mesh, colors, faceData, minValue, maxValue, face) ==
    IF ~(face < MeshFaceCount(mesh)) THEN colors
    ELSE ColorFaces(mesh,
                    ColorFace(mesh, colors, faceData, minValue, maxValue, face),
                    faceData, minValue, maxValue, face + 1)

\* lines 97-155
applyVertexColors(mesh, colors, faceData, minValue, maxValue) ==
    ColorFaces(mesh, colors, faceData, minValue, maxValue, 0)

\* lines 65-94: every mesh is coloured twice, by applyHeatmap itself and by
\* generatePerVertexHeatmap; the colour attribute is created where it is
\* missing.  (The texture is drawn from face.uvs, which no face of the
\* engine has.)
applyHeatmap(meshes, attribute, simulationResults) ==
    [m \in 1..Len(meshes) |->
        LET existing == IF m \in DOMAIN attribute THEN attribute[m]
                        ELSE NewColors(meshes[m])
            once == applyVertexColors(meshes[m], existing,
                                      simulationResults.faceData,
                                      simulationResults.minSplashback,
                                      simulationResults.maxSplashback)
        IN  applyVertexColors(meshes[m], once,
                              simulationResults.faceData,
                              simulationResults.minSplashback,
                              simulationResults.maxSplashback)]

(***************************************************************************)
(* SpecRunner: SimulationRunner.runSimulation(model, sourcePoint,          *)
(* forceValue), called again with the same arguments once it has returned. *)
(***************************************************************************)
\* the most runs
MaxRuns == 2

\* StartRun with the vertex map of the run before
StartRunKeepingVertices(previous) ==
    [NewResults EXCEPT !.vertexData = previous.vertexData]

\* lines 14-20 of simulationEngine.js: the results object of a run, whatever
\* the results of the run before
StartRun(previous) == NewResults

\* line 22 of simulationRunner.js
ApplyHeatmap ==
    /\ pc = "returned"
    /\ colorAttribute' = applyHeatmap(model, colorAttribute, results)
    /\ pc' = "applied"
    /\ UNCHANGED <<restVars, sourcePoint, forceValue, faceVars, model, meshIndex, i,
                   results, totalSplashback, faceCount, runNumber,
                   firstResults, dragVars>>

\* runSimulation has returned and is called again: lines 12-19 of
\* simulationRunner.js, lines 9-23 of simulationEngine.js
RunAgain ==
    /\ pc = "applied"
    /\ runNumber < MaxRuns
    /\ runNumber' = runNumber + 1
    /\ firstResults' = IF runNumber = 1 THEN results ELSE firstResults
    /\ pc' = "running"
    /\ meshIndex' = 1 /\ i' = 0
    /\ results' = StartRun(results)
    /\ totalSplashback' = RatZero
    /\ faceCount' = 0
    /\ UNCHANGED <<restVars, sourcePoint, forceValue, faceVars, model, colorAttribute,
                   dragVars>>

NextRunner == ProcessFace \/ NextMesh \/ Return \/ ApplyHeatmap \/ RunAgain
SpecRunner == Init /\ [][NextRunner]_vars

(***************************************************************************)
(* SpecSource: SourcePointManager (sourcePointManager.js).  sourcePoint is *)
(* the manager's field.  A mouse position, the camera and the drag plane   *)
(* decide where the ray of a mouse move meets the drag plane; the model    *)
(* draws the outcome, the coordinate of that point along the arrow's axis  *)
(* (closestPointToPoint keeps the two other coordinates of sourcePoint),   *)
(* from a set of lengths inside and outside the cube.                      *)
(***************************************************************************)
\* clampPosition without the lower limit
clampPositionUpperOnly(value) ==
    IF value > 5 * 2000000 THEN 5 * 2000000 ELSE value

\* lines 32-34: Math.max(-5, Math.min(5, value)), in units
clampPosition(value) ==
    LET upper == IF value > 5 * 2000000 THEN 5 * 2000000 ELSE value
    IN  IF upper < -5 * 2000000 THEN -5 * 2000000 ELSE upper

\* coordinates asked for by a call, in millimetres
RequestedCoordinates == {-7000, 2500, 5000, 8000}

Arrows == {"x-arrow", "y-arrow", "z-arrow"}

\* lines 10-20
InitSource ==
    /\ sourcePoint = Vector3(0, 0, 0)
    /\ DragIdle
    /\ RestIdle
    /\ forceValue = 50
    /\ FaceIdle
    /\ SimIdle
    /\ RunnerIdle

\* lines 110-118
SetSourcePosition ==
    /\ \E x, y, z \in RequestedCoordinates :
           sourcePoint' = Vector3(clampPosition(x * 2000),
                                  clampPosition(y * 2000),
                                  clampPosition(z * 2000))
    /\ UNCHANGED <<restVars, forceValue, faceVars, simVars, runnerVars, dragVars>>

\* lines 124-178, when the overlay is not shown and the ray of the mouse
\* meets an arrow (the handler changes nothing otherwise)
OnMouseDown ==
    /\ loadingOverlay # "flex"
    /\ \E arrow \in Arrows : selectedArrow' = arrow
    /\ controlsEnabled' = FALSE
    /\ isDragging' = TRUE
    /\ UNCHANGED <<restVars, sourcePoint, forceValue, faceVars, simVars, runnerVars,
                   loadingOverlay>>

\* lines 54-56, 104: userData.direction of an arrow
ArrowDirection(arrow) ==
    IF arrow = "x-arrow" THEN Vector3(1, 0, 0)
    ELSE IF arrow = "y-arrow" THEN Vector3(0, 1, 0)
    ELSE Vector3(0, 0, 1)

\* TargetPosition without the projection onto the axis
TargetPositionNotProjected(start, direction, point) == point

\* lines 197-205: Line3.closestPointToPoint(point, false, target) for
\* the line from start along direction: start + direction * t with
\* t = (point - start) . direction / direction . direction (the
\* length 100 of the code's line cancels)
TargetPosition(start, direction, point) ==
    LET t == dot(subVectors(point, start), direction)
                 \div dot(direction, direction)
    IN  Vector3(start.x + direction.x * t,
                start.y + direction.y * t,
                start.z + direction.z * t)

\* where the ray of a mouse move can meet the drag plane (offset added), in
\* millimetres per coordinate
DragCoordinates == {-7000, -1000, 2500, 5001}

\* lines 180-227
OnMouseMove ==
    /\ isDragging /\ selectedArrow # "null"
    /\ \E x, y, z \in DragCoordinates :
           LET targetPosition ==
                   TargetPosition(sourcePoint, ArrowDirection(selectedArrow),
                                  Millimetres(x, y, z))
           IN  sourcePoint' = Vector3(clampPosition(targetPosition.x),
                                      clampPosition(targetPosition.y),
                                      clampPosition(targetPosition.z))
    /\ UNCHANGED <<restVars, forceValue, faceVars, simVars, runnerVars, dragVars>>

\* OnMouseUp that leaves the orbit controls disabled
OnMouseUpControlsLeft ==
    /\ isDragging
    /\ isDragging' = FALSE
    /\ selectedArrow' = "null"
    /\ UNCHANGED <<restVars, sourcePoint, forceValue, faceVars, simVars, runnerVars,
                   controlsEnabled, loadingOverlay>>

\* lines 229-238, for mouseup and mouseleave (lines 62-63 of the
\* controller), when a drag is in progress (nothing changes otherwise)
OnMouseUp ==
    /\ isDragging
    /\ controlsEnabled' = TRUE
    /\ isDragging' = FALSE
    /\ selectedArrow' = "null"
    /\ UNCHANGED <<restVars, sourcePoint, forceValue, faceVars, simVars, runnerVars,
                   loadingOverlay>>

\* UIController.showLoading (lines 123-125 of the controller), as loads and
\* runs call it
ShowLoading ==
    /\ \E show \in BOOLEAN :
           loadingOverlay' = IF show THEN "flex" ELSE "none"
    /\ loadingOverlay' # loadingOverlay
    /\ UNCHANGED <<restVars, sourcePoint, forceValue, faceVars, simVars, runnerVars,
                   isDragging, selectedArrow, controlsEnabled>>

NextSource ==
    SetSourcePosition \/ OnMouseDown \/ OnMouseMove \/ OnMouseUp \/ ShowLoading
SpecSource == InitSource /\ [][NextSource]_vars

(***************************************************************************)
(* FluidSimulation (sourcePointManager.js lines 241-455)                   *)
(*                                                                         *)
(* Time is counted in frames of 1/60 s, the timeStep of the class: a       *)
(* particle's lifetime is its number of steps, and the clock of            *)
(* performance.now() enters only through timeSinceLastEmit.  A particle    *)
(* is [lifetime, active, index, reported]; reported is history, the        *)
(* number of collision events the particle has generated.  Whether the     *)
(* ray of a step meets the target model (checkCollision) is an input of    *)
(* update().  A collision of the list returned is represented by the       *)
(* index of its particle.                                                  *)
(***************************************************************************)
\* line 254: the capacity of the particle buffer (1000 in the code)
maxParticles == 3

\* lines 253, 260: particleLifetime / timeStep (5 * 60 frames in the code)
particleLifetime == 3

\* the flow-rate control, particles per second
FlowRates == {30, 50}

\* frames between one update() and the next
FrameTicks == {1, 3}

createParticleUnbounded(ps) ==
    Append(ps, [lifetime |-> 0, active |-> TRUE, index |-> Len(ps),
                reported |-> 0])

\* lines 320-351
createParticle(ps) ==
    IF Len(ps) >= maxParticles
    THEN ps
    ELSE Append(ps, [lifetime |-> 0, active |-> TRUE, index |-> Len(ps),
                     reported |-> 0])

\* lines 374-379: particlesToEmit calls of createParticle
RECURSIVE EmitParticles(_, _)
EmitParticles(ps, particlesToEmit) ==
    IF particlesToEmit <= 0
    THEN ps
    ELSE EmitParticles(createParticle(ps), particlesToEmit - 1)

\* lines 408-409: the step of this particle is reported as a collision
Collides(particle, collision) ==
    /\ particle.active
    /\ particle.lifetime + 1 < particleLifetime
    /\ collision

StepParticleStaysActive(particle, collision) ==
    IF ~particle.active
    THEN particle
    ELSE IF particle.lifetime + 1 >= particleLifetime
    THEN [particle EXCEPT !.lifetime = @ + 1, !.active = FALSE]
    ELSE IF collision
    THEN [particle EXCEPT !.lifetime = @ + 1, !.reported = @ + 1]
    ELSE [particle EXCEPT !.lifetime = @ + 1]

\* lines 382-427: one iteration of the loop over the particles
StepParticle(particle, collision) ==
    IF ~particle.active
    THEN particle
    ELSE IF particle.lifetime + 1 >= particleLifetime
    THEN [particle EXCEPT !.lifetime = @ + 1, !.active = FALSE]
    ELSE IF collision
    THEN [particle EXCEPT !.lifetime = @ + 1, !.active = FALSE,
                          !.reported = @ + 1]
    ELSE [particle EXCEPT !.lifetime = @ + 1]

\* the indices of the particles of ps[from .. Len(ps)] that collide, in order
RECURSIVE CollisionList(_, _, _)
CollisionList(ps, hits, from) ==
    IF from > Len(ps)
    THEN <<>>
    ELSE IF Collides(ps[from], ps[from].index \in hits)
    THEN <<ps[from].index>> \o CollisionList(ps, hits, from + 1)
    ELSE CollisionList(ps, hits, from + 1)

InitFluid ==
    /\ sourcePoint = Vector3(0, 0, 0)
    /\ forceValue = 50
    /\ FaceIdle
    /\ SimIdle
    /\ RunnerIdle
    /\ DragIdle
    /\ RestIdle

\* lines 268-280: init(targetModel, scene, position, direction, flowRate)
FluidInit ==
    /\ \E rate \in FlowRates : flowRate' = rate
    /\ lastEmitSet' = FALSE
    /\ timeSinceLastEmit' = 0
    /\ UNCHANGED <<particles, collisions>>
    /\ UNCHANGED <<sourcePoint, forceValue, faceVars, simVars, runnerVars,
                   dragVars, vizVars, rampVars, uiVars>>

\* lines 364-431: update()
FluidUpdate ==
    /\ \E elapsed \in FrameTicks, hits \in SUBSET (0 .. maxParticles - 1) :
         LET since == IF lastEmitSet THEN timeSinceLastEmit + elapsed ELSE 0
             particlesToEmit == (flowRate * since) \div 60
             emitted == EmitParticles(particles, particlesToEmit)
         IN  /\ particles' = [k \in 1 .. Len(emitted) |->
                                StepParticle(emitted[k],
                                             emitted[k].index \in hits)]
             /\ collisions' = CollisionList(emitted, hits, 1)
             /\ timeSinceLastEmit' = IF particlesToEmit > 0 THEN 0 ELSE since
             /\ lastEmitSet' = TRUE
    /\ UNCHANGED flowRate
    /\ UNCHANGED <<sourcePoint, forceValue, faceVars, simVars, runnerVars,
                   dragVars, vizVars, rampVars, uiVars>>

\* lines 447-454: stop()
FluidStop ==
    /\ particles' = <<>>
    /\ UNCHANGED <<collisions, flowRate, lastEmitSet, timeSinceLastEmit>>
    /\ UNCHANGED <<sourcePoint, forceValue, faceVars, simVars, runnerVars,
                   dragVars, vizVars, rampVars, uiVars>>

NextFluid == FluidInit \/ FluidUpdate \/ FluidStop

SpecFluid == InitFluid /\ [][NextFluid]_vars

(***************************************************************************)
(* HeatmapVisualizer (heatmapVisualizer.js)                                *)
(*                                                                         *)
(* An intensity is an integer number of thousandths; a normalized          *)
(* intensity, a stop value and a colour channel are exact ratios           *)
(* <<num, den>>.  A colour is [r, g, b] with channels in [0, 1], as        *)
(* THREE.Color keeps them.                                                 *)
(***************************************************************************)
RatTimes(a, b) == Rat(a[1] * b[1], a[2] * b[2])

\* THREE.Color(hex), the hex number given by its three bytes
Color(red, green, blue) ==
    [r |-> Rat(red, 255), g |-> Rat(green, 255), b |-> Rat(blue, 255)]

\* lines 17-22, colorScale[0] .. colorScale[3] at 1 .. 4
colorScale ==
    << [value |-> Rat(0, 10),  color |-> Color(0, 0, 255)],
       [value |-> Rat(4, 10),  color |-> Color(0, 255, 0)],
       [value |-> Rat(7, 10),  color |-> Color(255, 255, 0)],
       [value |-> Rat(10, 10), color |-> Color(255, 0, 0)] >>

\* THREE.Color.lerp: this.r += (color.r - this.r) * alpha, and so on
lerp(from, to, alpha) ==
    [r |-> RatAdd(from.r, RatTimes(RatSub(to.r, from.r), alpha)),
     g |-> RatAdd(from.g, RatTimes(RatSub(to.g, from.g), alpha)),
     b |-> RatAdd(from.b, RatTimes(RatSub(to.b, from.b), alpha))]

RampColorWideLastPiece(normalized) ==
    IF RatLess(normalized, colorScale[2].value)
    THEN LET t == RatDiv(normalized, colorScale[2].value)
         IN  lerp(colorScale[1].color, colorScale[2].color, t)
    ELSE IF RatLess(normalized, colorScale[3].value)
    THEN LET t == RatDiv(RatSub(normalized, colorScale[2].value),
                         RatSub(colorScale[3].value, colorScale[2].value))
         IN  lerp(colorScale[2].color, colorScale[3].color, t)
    ELSE LET t == RatDiv(RatSub(normalized, colorScale[3].value),
                         RatSub(<<1, 1>>, colorScale[2].value))
         IN  lerp(colorScale[3].color, colorScale[4].color, t)

\* lines 694-707 of updateFallbackMaterial: the colour of a normalized
\* intensity
RampColor(normalized) ==
    IF RatLess(normalized, colorScale[2].value)
    THEN LET t == RatDiv(normalized, colorScale[2].value)
         IN  lerp(colorScale[1].color, colorScale[2].color, t)
    ELSE IF RatLess(normalized, colorScale[3].value)
    THEN LET t == RatDiv(RatSub(normalized, colorScale[2].value),
                         RatSub(colorScale[3].value, colorScale[2].value))
         IN  lerp(colorScale[2].color, colorScale[3].color, t)
    ELSE LET t == RatDiv(RatSub(normalized, colorScale[3].value),
                         RatSub(<<1, 1>>, colorScale[3].value))
         IN  lerp(colorScale[3].color, colorScale[4].color, t)

\* the number of equal steps of [0, 1] at which the ramp is sampled
RampSteps == 200

NormalizedIntensities == {Rat(k, RampSteps) : k \in 0 .. RampSteps}

InitRamp ==
    /\ normalizedIntensity \in NormalizedIntensities
    /\ materialColor = Color(0, 0, 255)
    /\ rampApplied = FALSE
    /\ sourcePoint = Vector3(0, 0, 0)
    /\ forceValue = 50
    /\ FaceIdle
    /\ SimIdle
    /\ RunnerIdle
    /\ DragIdle
    /\ FluidIdle
    /\ VizIdle
    /\ UiIdle

\* lines 694-710: the material's colour is set from the ramp
SetMaterialColor ==
    /\ ~rampApplied
    /\ materialColor' = RampColor(normalizedIntensity)
    /\ rampApplied' = TRUE
    /\ UNCHANGED normalizedIntensity
    /\ UNCHANGED <<sourcePoint, forceValue, faceVars, simVars, runnerVars,
                   dragVars, fluidVars, vizVars, uiVars>>

NextRamp == SetMaterialColor

SpecRamp == InitRamp /\ [][NextRamp]_vars

(***************************************************************************)
(* HeatmapVisualizer: the heatmap data, the recalculation flag and the     *)
(* textures.                                                               *)
(*                                                                         *)
(* The target model has two meshes: "a" passes validateGeometry (index,    *)
(* uv and normals) and has two faces, "b" has an index and normals but no  *)
(* uv and one face, so prepareModel gives "a" a heatmap texture and "b" a  *)
(* fallback material.  A key of heatmapData is <<uuid, faceIndex>>.  A     *)
(* texture is given by the red byte of the texels of each face of its      *)
(* mesh.                                                                   *)
(***************************************************************************)
VizMeshes ==
    << [uuid |-> "a", faces |-> 2, uv |-> TRUE],
       [uuid |-> "b", faces |-> 1, uv |-> FALSE] >>

\* lines 183-208: validateGeometry
validateGeometry(mesh) == mesh.uv

MeshKeys(mesh) == {<<mesh.uuid, f>> : f \in 0 .. mesh.faces - 1}

ValidMeshes == {m \in 1 .. Len(VizMeshes) : validateGeometry(VizMeshes[m])}

\* the positions and directions of the user controls
ControlSettings == {"initial", "front", "side"}

\* lines 451-479: calculateSplashbackIntensity of the face of a key under a
\* setting of the controls, in thousandths
PredictedIntensity(setting, key) ==
    IF setting = "front"
    THEN (IF key = <<"a", 0>> THEN 800 ELSE IF key = <<"a", 1>> THEN 0
          ELSE 300)
    ELSE IF setting = "side"
    THEN (IF key = <<"a", 0>> THEN 0 ELSE IF key = <<"a", 1>> THEN 50
          ELSE 0)
    ELSE 200

\* lines 210-228, 582-590, 733-745: a texture with every texel (0, 0, 0, 255)
BlankTexture(mesh) == [f \in 0 .. mesh.faces - 1 |-> 0]

\* lines 567-633: updateMeshHeatmap(mesh); the loop over the faces (lines
\* 618-622) has no statement in its body
updateMeshHeatmap(mesh) == BlankTexture(mesh)

MaxOf(a, b) == IF a > b THEN a ELSE b

RECURSIVE MaxOver(_, _, _)
MaxOver(data, keys, least) ==
    IF keys = {}
    THEN least
    ELSE LET key == CHOOSE x \in keys : TRUE
         IN  MaxOver(data, keys \ {key}, MaxOf(least, data[key].intensity))

RECURSIVE SumOver(_, _)
SumOver(data, keys) ==
    IF keys = {}
    THEN 0
    ELSE LET key == CHOOSE x \in keys : TRUE
         IN  data[key].intensity + SumOver(data, keys \ {key})

\* lines 674-712: updateFallbackMaterial(mesh), the colour it leaves
updateFallbackMaterial(mesh, data, maximum, current) ==
    LET keys == {key \in DOMAIN data : key[1] = mesh.uuid}
        keyCount == Cardinality(keys)
        totalIntensity == SumOver(data, keys)
        ratio == Rat(totalIntensity, keyCount * maximum)
        normalized == IF RatLess(<<1, 1>>, ratio) THEN <<1, 1>> ELSE ratio
    IN  IF keyCount = 0 THEN current ELSE RampColor(normalized)

AllKeys == UNION {MeshKeys(VizMeshes[m]) : m \in 1 .. Len(VizMeshes)}

RecalculatedDataKeepingHits(setting, data) ==
    [key \in AllKeys |->
        [intensity |-> PredictedIntensity(setting, key),
         hits |-> IF key \in DOMAIN data THEN data[key].hits ELSE 0]]

\* lines 297-298, 304-320, 355-449: heatmapData after the clear and the
\* calculateMeshHeatmap of every mesh with an index
RecalculatedData(setting, data) ==
    [key \in AllKeys |->
        [intensity |-> PredictedIntensity(setting, key), hits |-> 0]]

\* lines 298, 441-443, 333: maxIntensity after the recalculation
RecalculatedMaximum(data) ==
    LET maximum == MaxOver(data, DOMAIN data, 10)
    IN  IF maximum < 100 THEN 1000 ELSE maximum

\* the most collisions recorded on one face between two recalculations
MaxHits == 2

\* the most recalculations of a run of the visualizer
MaxUpdates == 3

MeshOf(uuid) == CHOOSE m \in 1 .. Len(VizMeshes) : VizMeshes[m].uuid = uuid

\* where the ray cast down from a collision point ends: on a face, or
\* nowhere
CollisionTargets == AllKeys \cup {<<"none", 0>>}

\* (1 - angle / pi) * velocity / 10 of a collision, in thousandths
CollisionIntensities == {0, 1200}

CollisionLists ==
    LET one == CollisionTargets \X CollisionIntensities
    IN  {<<c>> : c \in one} \cup {<<c, e>> : c \in one, e \in one}

\* lines 497-549: updateHeatmapForCollision(point, intensity) on the state
\* st = [data, queue, maximum, valid], point being over the face of key
updateHeatmapForCollision(st, key, intensity) ==
    IF key[1] = "none" \/ key[1] \notin st.valid
    THEN st
    ELSE LET old == IF key \in DOMAIN st.data
                    THEN st.data[key]
                    ELSE [intensity |-> 0, hits |-> 0]
             new == [intensity |-> old.intensity + intensity,
                     hits |-> old.hits + 1]
         IN  [st EXCEPT !.data = (key :> new) @@ st.data,
                        !.queue = @ \cup {key[1]}]

\* lines 244-266: the forEach of addCollisionData from collision n on
RECURSIVE ProcessCollisions(_, _, _)
ProcessCollisions(st, list, n) ==
    IF n > Len(list)
    THEN st
    ELSE LET updated == updateHeatmapForCollision(st, list[n][1], list[n][2])
             next == IF list[n][2] > updated.maximum
                     THEN [updated EXCEPT !.maximum = list[n][2]]
                     ELSE updated
         IN  ProcessCollisions(next, list, n + 1)

InitViz ==
    /\ sourcePoint = Vector3(0, 0, 0)
    /\ forceValue = 50
    /\ FaceIdle
    /\ SimIdle
    /\ RunnerIdle
    /\ DragIdle
    /\ RestIdle

vizFrame == <<sourcePoint, forceValue, faceVars, simVars, runnerVars,
              dragVars, fluidVars, rampVars, uiVars>>

\* lines 29-40 and prepareModel (lines 114-181)
VizInit ==
    /\ targetModel' = "model"
    /\ heatmapData' = <<>>
    /\ maxIntensity' = 1000
    /\ heatmapTexture' =
           [u \in {VizMeshes[m].uuid : m \in ValidMeshes} |->
                BlankTexture(VizMeshes[MeshOf(u)])]
    /\ fallbackMaterial' =
           [u \in {VizMeshes[m].uuid :
                       m \in (1 .. Len(VizMeshes)) \ ValidMeshes} |->
                Color(0, 0, 255)]
    /\ needsFullRecalculation' = TRUE
    /\ UNCHANGED <<updateCounter, userControls, frameQueue>>
    /\ UNCHANGED vizFrame

\* lines 270-278
UpdateUserControls ==
    /\ \E setting \in ControlSettings : userControls' = setting
    /\ needsFullRecalculation' = TRUE
    /\ UNCHANGED <<targetModel, heatmapData, maxIntensity, updateCounter,
                   heatmapTexture, fallbackMaterial, frameQueue>>
    /\ UNCHANGED vizFrame

\* lines 725-757
VizReset ==
    /\ heatmapData' = <<>>
    /\ maxIntensity' = 1000
    /\ heatmapTexture' =
           IF targetModel # "null"
           THEN [u \in DOMAIN heatmapTexture |->
                    BlankTexture(VizMeshes[MeshOf(u)])]
           ELSE heatmapTexture
    /\ needsFullRecalculation' = TRUE
    /\ UNCHANGED <<targetModel, updateCounter, userControls,
                   fallbackMaterial, frameQueue>>
    /\ UNCHANGED vizFrame

\* lines 280-287, with calculatePredictiveHeatmap (lines 289-353)
VizUpdate ==
    /\ IF needsFullRecalculation /\ targetModel # "null"
       THEN /\ updateCounter < MaxUpdates
            /\ updateCounter' = updateCounter + 1
            /\ \E data \in {RecalculatedData(userControls, heatmapData)} :
               \E maximum \in {RecalculatedMaximum(data)} :
                 /\ heatmapData' = data
                 /\ maxIntensity' = maximum
                 /\ heatmapTexture' =
                        [u \in DOMAIN heatmapTexture |->
                             updateMeshHeatmap(VizMeshes[MeshOf(u)])]
                 /\ fallbackMaterial' =
                        [u \in DOMAIN fallbackMaterial |->
                             updateFallbackMaterial(VizMeshes[MeshOf(u)],
                                 data, maximum, fallbackMaterial[u])]
            /\ needsFullRecalculation' = FALSE
            /\ UNCHANGED <<targetModel, userControls, frameQueue>>
       ELSE UNCHANGED vizVars
    /\ UNCHANGED vizFrame

\* lines 230-268, with updateHeatmapForCollision and safeUpdateHeatmap
AddCollisionData ==
    /\ targetModel # "null"
    /\ \E list \in CollisionLists :
       \E st \in {ProcessCollisions([data |-> heatmapData,
                                     queue |-> frameQueue,
                                     maximum |-> maxIntensity,
                                     valid |-> DOMAIN heatmapTexture],
                                    list, 1)} :
         /\ \A key \in DOMAIN st.data : st.data[key].hits <= MaxHits
         /\ heatmapData' = st.data
         /\ frameQueue' = st.queue
         /\ maxIntensity' = st.maximum
    /\ UNCHANGED <<targetModel, needsFullRecalculation, updateCounter,
                   userControls, heatmapTexture, fallbackMaterial>>
    /\ UNCHANGED vizFrame

\* lines 556-564: the callbacks queued by safeUpdateHeatmap run
AnimationFrame ==
    /\ frameQueue # {}
    /\ heatmapTexture' =
           [u \in DOMAIN heatmapTexture |->
                IF u \in frameQueue
                THEN updateMeshHeatmap(VizMeshes[MeshOf(u)])
                ELSE heatmapTexture[u]]
    /\ frameQueue' = {}
    /\ UNCHANGED <<targetModel, heatmapData, maxIntensity,
                   needsFullRecalculation, updateCounter, userControls,
                   fallbackMaterial>>
    /\ UNCHANGED vizFrame

NextViz ==
    \/ VizInit
    \/ UpdateUserControls
    \/ VizReset
    \/ VizUpdate
    \/ AddCollisionData
    \/ AnimationFrame

SpecViz == InitViz /\ [][NextViz]_vars


(***************************************************************************)
(* SimulationRunner.runSimulation and UIController (part_002)              *)
(*                                                                         *)
(* A text (an error message, the stats panel) is the sequence of its       *)
(* parts, so that a template literal is a concatenation and                *)
(* String.includes a search among the parts.  What a call did is           *)
(* [threw, type, message]; a value thrown is an error of that type with    *)
(* that message.  The model files are "A" and "B", and the model loaded    *)
(* from a file is named by the file.                                       *)
(***************************************************************************)
Completed == [threw |-> FALSE, type |-> "", message |-> <<>>]

Throws(type, message) == [threw |-> TRUE, type |-> type, message |-> message]

\* what simulateSplashback and applyHeatmap can do on the models a user
\* loads
Outcomes ==
    { Completed,
      Throws("TypeError", <<"Assignment to constant variable", ".">>),
      Throws("TypeError", <<"Cannot read properties of undefined">>),
      Throws("Error", <<"Assignment to constant variable", ".">>) }

\* String.prototype.includes
Includes(message, part) == \E n \in 1 .. Len(message) : message[n] = part

ConflictMessage ==
    <<"Simulation parameter conflict detected. This might be caused by a constraint violation in the physics model. Try different source position or force values.">>

runSimulationHeatmapErrorSwallowed(simulate, heatmap) ==
    IF ~simulate.threw
    THEN [returned |-> "results", thrown |-> Completed]
    ELSE IF /\ simulate.type = "TypeError"
            /\ Includes(simulate.message, "Assignment to constant variable")
    THEN [returned |-> "undefined",
          thrown |-> Throws("Error", ConflictMessage)]
    ELSE [returned |-> "undefined",
          thrown |-> Throws("Error", <<"Simulation failed: ">>
                                         \o simulate.message)]

\* simulationRunner.js lines 12-37, simulate and heatmap being what the two
\* calls of the try block do (the second is made only if the first
\* completes)
runSimulation(simulate, heatmap) ==
    LET error == IF simulate.threw THEN simulate ELSE heatmap
    IN  IF ~error.threw
        THEN [returned |-> "results", thrown |-> Completed]
        ELSE IF /\ error.type = "TypeError"
                /\ Includes(error.message, "Assignment to constant variable")
        THEN [returned |-> "undefined",
              thrown |-> Throws("Error", ConflictMessage)]
        ELSE [returned |-> "undefined",
              thrown |-> Throws("Error", <<"Simulation failed: ">>
                                             \o error.message)]

Files == {"A", "B"}

\* the most loads in flight at a time
MaxPendingLoads == 2

\* the most deferred runs waiting for their timer at a time
MaxTimers == 2

Remove(seq, n) == SubSeq(seq, 1, n - 1) \o SubSeq(seq, n + 1, Len(seq))

InitUI ==
    /\ sourcePoint = Vector3(0, 0, 0)
    /\ forceValue = 50
    /\ FaceIdle
    /\ SimIdle
    /\ RunnerIdle
    /\ DragIdle
    /\ RestIdle

uiFrame == <<sourcePoint, forceValue, faceVars, simVars, runnerVars,
             isDragging, selectedArrow, controlsEnabled, fluidVars, vizVars,
             rampVars>>

\* part_002 lines 69-72: loadModel(file) up to the pending promise
SelectFile ==
    /\ Len(pendingLoads) < MaxPendingLoads
    /\ \E file \in Files :
         /\ pendingLoads' = Append(pendingLoads, file)
         /\ lastSelected' = file
    /\ loadedLast' = FALSE
    /\ loadingOverlay' = "flex"
    /\ UNCHANGED <<currentModel, timers, stats, runnerInputs, runnerResult>>
    /\ UNCHANGED uiFrame

\* part_002 lines 73-78, with setCurrentModel (main.js lines 338-346): the
\* promise of the n-th load in flight is resolved
LoadResolved ==
    /\ \E n \in 1 .. Len(pendingLoads) :
         /\ currentModel' = pendingLoads[n]
         /\ pendingLoads' = Remove(pendingLoads, n)
         /\ loadedLast' = IF n = Len(pendingLoads) THEN TRUE ELSE loadedLast
    /\ loadingOverlay' = "none"
    /\ stats' = <<"Model loaded. Run the simulation to analyze splashback.">>
    /\ UNCHANGED <<lastSelected, timers, runnerInputs, runnerResult>>
    /\ UNCHANGED uiFrame

\* part_002 lines 79-83: the promise of the n-th load in flight is rejected
LoadRejected ==
    /\ \E n \in 1 .. Len(pendingLoads) :
         pendingLoads' = Remove(pendingLoads, n)
    /\ loadingOverlay' = "none"
    /\ stats' = <<"Error loading model: ", "Failed to read the file">>
    /\ UNCHANGED <<currentModel, lastSelected, loadedLast, timers,
                   runnerInputs, runnerResult>>
    /\ UNCHANGED uiFrame

\* part_002 lines 86-96 and 120: runSimulation() up to the setTimeout
RunSimulation ==
    /\ IF currentModel = "null"
       THEN UNCHANGED <<loadingOverlay, timers>>
       ELSE /\ Len(timers) < MaxTimers
            /\ loadingOverlay' = "flex"
            /\ timers' = Append(timers, currentModel)
    /\ UNCHANGED <<currentModel, pendingLoads, lastSelected, loadedLast,
                   stats, runnerInputs, runnerResult>>
    /\ UNCHANGED uiFrame

\* part_002 lines 97-119: the callback of the oldest timer runs
RunDeferred ==
    /\ timers # <<>>
    /\ \E simulate \in Outcomes, heatmap \in Outcomes :
       \E call \in {runSimulation(simulate, heatmap)} :
         /\ runnerInputs' = <<simulate, heatmap>>
         /\ runnerResult' = call
         /\ stats' = IF call.thrown.threw
                     THEN <<"Simulation failed: ">> \o call.thrown.message
                     ELSE <<"Simulation complete!">>
    /\ loadingOverlay' = "none"
    /\ timers' = Tail(timers)
    /\ UNCHANGED <<currentModel, pendingLoads, lastSelected, loadedLast>>
    /\ UNCHANGED uiFrame

NextUI ==
    \/ SelectFile
    \/ LoadResolved
    \/ LoadRejected
    \/ RunSimulation
    \/ RunDeferred

SpecUI == InitUI /\ [][NextUI]_vars

(***************************************************************************)
(* Properties                                                              *)
(***************************************************************************)
One == <<SinScale, 1>>
InUnitRange(a) == RatLeq(RatZero, a) /\ RatLeq(a, One)

\* C1: after simulateSplashback on a model with at least one face, every
\* entry of faceData has a splashback in [0, 1] and lies between
\* results.minSplashback and results.maxSplashback.
C1_FacesInRange ==
    (pc = "returned" /\ faceCount > 0) =>
        \A f \in 1..Len(results.faceData) :
            LET value == results.faceData[f].splashback
            IN  /\ InUnitRange(value)
                /\ RatLeq(results.minSplashback, value)
                /\ RatLeq(value, results.maxSplashback)

\* A run has returned with faces of different intensities, of which one
\* is strictly between the minimum and the maximum.
C1_Witness ==
    /\ pc = "returned"
    /\ \E f \in 1..Len(results.faceData) :
           /\ RatLess(results.minSplashback, results.faceData[f].splashback)
           /\ RatLess(results.faceData[f].splashback, results.maxSplashback)

\* the sum of the factors of the entries lo .. hi of a history that hit
RECURSIVE SumOfHits(_, _, _)
SumOfHits(history, lo, hi) ==
    IF lo > hi THEN 0
    ELSE IF lo = hi THEN (IF history[lo].found THEN history[lo].factor ELSE 0)
    ELSE LET mid == (lo + hi) \div 2
         IN  SumOfHits(history, lo, mid) + SumOfHits(history, mid + 1, hi)

NumberOfHits(history) == Cardinality({k \in 1..Len(history) : history[k].found})

\* C2: calculateFaceSplashback returns the sum of sin^2(incidentAngle) over
\* the sampled trajectories that intersect the face divided by the number
\* of those trajectories, and exactly 0 when none intersects.
C2_FaceAverage ==
    fpc = "returned" =>
        /\ sampleCount = NumberOfHits(samples)
        /\ faceSplashback =
               IF NumberOfHits(samples) > 0
               THEN Rat(SumOfHits(samples, 1, Len(samples)), NumberOfHits(samples))
               ELSE RatZero

\* A call has returned after some of its trajectories hit the face and
\* others did not.
C2_Witness ==
    /\ fpc = "returned"
    /\ NumberOfHits(samples) > 0
    /\ NumberOfHits(samples) < Len(samples)
    /\ RatLess(RatZero, faceSplashback)


\* the faces that come before those of mesh m in results.faceData
RECURSIVE FaceOffset(_)
FaceOffset(m) ==
    IF m <= 1 THEN 0 ELSE FaceOffset(m - 1) + MeshFaceCount(model[m - 1])

\* the intensity computed for face f (from 0) of mesh m
FaceIntensity(m, f) == results.faceData[FaceOffset(m) + f + 1].splashback

\* the faces of mesh m that vertex v belongs to
FacesOfVertex(m, v) ==
    {f \in 0..(MeshFaceCount(model[m]) - 1) :
        \E j \in 1..3 : VertexIndices(model[m], f)[j] = v}

\* the vertices of mesh m that belong to a face
UsedVertices(m) ==
    {VertexIndices(model[m], f)[j] :
        f \in 0..(MeshFaceCount(model[m]) - 1), j \in 1..3}

RECURSIVE SumOfIntensities(_, _)
SumOfIntensities(m, faces) ==
    IF faces = {} THEN RatZero
    ELSE LET f == CHOOSE x \in faces : TRUE
         IN  RatAdd(FaceIntensity(m, f), SumOfIntensities(m, faces \ {f}))

MeanIntensity(m, v) ==
    RatDivInt(SumOfIntensities(m, FacesOfVertex(m, v)),
              Cardinality(FacesOfVertex(m, v)))

\* C3: after simulateSplashback, every vertex's stored averageSplashback is
\* the arithmetic mean of the intensities of exactly the faces the vertex
\* belongs to, in a model of several meshes too.
C3_VertexMean ==
    pc = "returned" =>
        \A m \in 1..Len(model) : \A v \in UsedVertices(m) :
            /\ v \in DOMAIN results.vertexData
            /\ results.vertexData[v].averageSplashback = MeanIntensity(m, v)

\* the number 1 as a ratio
UnitOne == <<1, 1>>

\* C4: for every vertex of results.vertexData the normalized value
\* (averageSplashback - min) / (max - min) is in [0, 1], and is 0 when
\* max = min; so the colour components r and b are in [0, 1] and b = 1 - r.
\* (The normalized value is what the code stores as b.)
C4_NormalizedInRange ==
    pc = "returned" =>
        \A v \in DOMAIN results.vertexData :
            LET info == results.vertexData[v]
                r == info.color.r
                b == info.color.b
            IN  /\ RatLeq(RatZero, r) /\ RatLeq(r, UnitOne)
                /\ RatLeq(RatZero, b) /\ RatLeq(b, UnitOne)
                /\ RatAdd(r, b) = UnitOne
                /\ info.color.g = RatZero
                /\ results.maxSplashback = results.minSplashback => b = RatZero
                /\ RatLess(results.minSplashback, results.maxSplashback) =>
                       LET spread == RatSub(results.maxSplashback,
                                            results.minSplashback)
                           above == RatSub(info.averageSplashback,
                                           results.minSplashback)
                       IN  b = RatDiv(above, spread)

\* A run has returned with a vertex whose normalized value is strictly
\* between 0 and 1.
C4_Witness ==
    /\ pc = "returned"
    /\ \E v \in DOMAIN results.vertexData :
           /\ RatLess(RatZero, results.vertexData[v].color.b)
           /\ RatLess(results.vertexData[v].color.b, UnitOne)

\* C5: the colour value is the inverted normalized average: of two vertices
\* of a result with max > min, the one with the strictly higher
\* averageSplashback has the strictly lower r and the strictly higher b.
C5_HigherIsCooler ==
    (pc = "returned" /\ RatLess(results.minSplashback, results.maxSplashback)) =>
        \A v, w \in DOMAIN results.vertexData :
            RatLess(results.vertexData[v].averageSplashback,
                    results.vertexData[w].averageSplashback) =>
                /\ RatLess(results.vertexData[w].color.r,
                           results.vertexData[v].color.r)
                /\ RatLess(results.vertexData[v].color.b,
                           results.vertexData[w].color.b)

\* A run has returned with two vertices of different averages.
C5_Witness ==
    /\ pc = "returned"
    /\ RatLess(results.minSplashback, results.maxSplashback)
    /\ \E v, w \in DOMAIN results.vertexData :
           RatLess(results.vertexData[v].averageSplashback,
                   results.vertexData[w].averageSplashback)

\* C6: when the model supplies no face, simulateSplashback reports a
\* no-data condition: it does not return a result whose minSplashback is
\* Infinity and whose maxSplashback is 0.
C6_NoDataReported ==
    (pc = "returned" /\ faceCount = 0) =>
        ~(results.minSplashback = Infinity /\ results.maxSplashback = RatZero)


\* the height of the k-th sampled position of the last trajectory
SampledHeight(k) == PositionAt(sourcePoint, initialVelocityVector, k).y

\* C7: for every start point in the source cube, negative heights included,
\* and every sampled initial velocity, calculateTrajectory returns at least
\* 2 points.
C7_AtLeastTwoPoints ==
    samples # <<>> => Len(trajectoryPoints) >= 2

\* C8: in the sequence calculateTrajectory returns only the last point can
\* have a height y < 0: the first sampled position of negative height is
\* appended and ends the sequence; when no sampled position up to the time
\* cap is negative, the sequence ends at the cap with no negative height.
C8_OnlyLastBelowFloor ==
    samples # <<>> =>
        LET n == Len(trajectoryPoints)
        IN  /\ n >= 1
            /\ \A k \in 1..(n - 1) : trajectoryPoints[k].y >= 0
            /\ \A k \in 0..(n - 2) : SampledHeight(k) >= 0
            /\ IF \E k \in 0..LastStep : SampledHeight(k) < 0
               THEN /\ SampledHeight(n - 1) < 0
                    /\ trajectoryPoints[n].y < 0
               ELSE /\ n = LastStep + 1
                    /\ trajectoryPoints[n].y >= 0

\* A trajectory that rose from the ground and ended at its first position
\* below the floor.
C8_Witness ==
    /\ samples # <<>>
    /\ Len(trajectoryPoints) >= 3
    /\ trajectoryPoints[2].y > trajectoryPoints[1].y
    /\ trajectoryPoints[Len(trajectoryPoints)].y < 0

\* C9: calculateTrajectory returns a finite sequence of at most
\* maxTime / timeStep + 1 = 201 points, the k-th point (from 0) being the
\* ballistic position at time k * 0.01 s; a call of calculateFaceSplashback
\* samples at most 2 * ANGULAR_RESOLUTION trajectories.
C9_BoundedTrajectory ==
    samples # <<>> =>
        /\ Len(trajectoryPoints) >= 1
        /\ Len(trajectoryPoints) <= 201
        /\ \A k \in 1..Len(trajectoryPoints) :
               trajectoryPoints[k] =
                   PositionAt(sourcePoint, initialVelocityVector, k - 1)
        /\ Len(samples) <= 2 * ANGULAR_RESOLUTION

\* A trajectory that stayed above the floor up to the time cap.
C9_Witness ==
    /\ samples # <<>>
    /\ Len(trajectoryPoints) >= 200
    /\ trajectoryPoints[Len(trajectoryPoints)].y >= 0

\* Segment j of the last trajectory (from its point j to its point j + 1)
\* crosses the plane of the face at a distance d with 0 < d <= its length:
\* with a the normal's product with facePoint - p1 and b its product with
\* p2 - p1, d is a / b segment lengths.
CrossesWithin(j) ==
    LET p1 == trajectoryPoints[j]
        p2 == trajectoryPoints[j + 1]
        a == dot(faceNormal, subVectors(facePoint, p1))
        b == dot(faceNormal, subVectors(p2, p1))
    IN  \/ b > 0 /\ 0 < a /\ a <= b
        \/ b < 0 /\ b <= a /\ a < 0

\* C10: findIntersection returns the crossing of the first segment whose
\* crossing distance d satisfies 0 < d <= segment length; no other segment
\* is accepted, no later segment replaces the first accepted one, and null
\* is returned when no segment qualifies.
C10_FirstHitWins ==
    samples # <<>> =>
        LET segments == 1..(Len(trajectoryPoints) - 1)
        IN  /\ intersection.found =>
                /\ intersection.segment \in segments
                /\ CrossesWithin(intersection.segment)
                /\ \A j \in 1..(intersection.segment - 1) : ~CrossesWithin(j)
                /\ intersection.distance[1] > 0
                /\ intersection.distance[1] <= intersection.distance[2]
            /\ ~intersection.found =>
                /\ intersection = NullIntersection
                /\ \A j \in segments : ~CrossesWithin(j)

\* A trajectory crossed the face's plane twice, and the first crossing, not
\* in its first segment, was returned.
C10_Witness ==
    /\ samples # <<>>
    /\ intersection.found
    /\ intersection.segment >= 2
    /\ \E j \in (intersection.segment + 1)..(Len(trajectoryPoints) - 1) :
           CrossesWithin(j)


\* the farthest a trajectory of the run can travel horizontally, in units:
\* no more than its speed for the 1.99 s of the last sampled position
Reach == InitialVelocity(forceValue) * LastStep * 20

\* Every sampled trajectory misses the triangle of these vertices (given in
\* millimetres), as the triangle lies beyond their reach on one side of the
\* source point.
OutOfReach(vertices) ==
    \/ \A j \in 1..3 : vertices[j].x * 2000 - sourcePoint.x > Reach
    \/ \A j \in 1..3 : sourcePoint.x - vertices[j].x * 2000 > Reach
    \/ \A j \in 1..3 : vertices[j].z * 2000 - sourcePoint.z > Reach
    \/ \A j \in 1..3 : sourcePoint.z - vertices[j].z * 2000 > Reach

\* C11: a face whose triangle no sampled trajectory passes through has
\* intensity 0, even when trajectories cross the plane that contains it.
C11_MissedFaceIsZero ==
    pc = "returned" =>
        \A f \in 1..Len(results.faceData) :
            OutOfReach(results.faceData[f].vertices) =>
                results.faceData[f].splashback = RatZero


\* C12: for the source point (0, 0, 0), force value 50 and an upward-facing
\* face centred at (0, 1, 0) with normal (0, 1, 0), at least one sampled
\* trajectory intersects the face and the face intensity is strictly between
\* 0 and 1.
C12_FaceAboveIsHit ==
    ( /\ fpc = "returned"
      /\ sourcePoint = Millimetres(0, 0, 0)
      /\ forceValue = 50
      /\ facePoint = Millimetres(0, 1000, 0)
      /\ faceNormal = Vector3(0, 1, 0) ) =>
        /\ sampleCount > 0
        /\ RatLess(RatZero, faceSplashback)
        /\ RatLess(faceSplashback, One)


\* C13: calculateFaceSplashback evaluates exactly one trajectory per pair of
\* the grid phi = k * 2 pi / 20 (k = 0 .. 19), theta in {pi / 6, pi / 4}, in
\* that order: the same 40 launch directions for every face, each of speed
\* forceValue / 10 (its vertical part is that speed times cos theta).
C13_SameGrid ==
    /\ Len(samples) <= 40
    /\ fpc = "returned" => Len(samples) = 40
    /\ \A k \in 1..Len(samples) :
           /\ samples[k].phi = (k - 1) \div 2
           /\ samples[k].theta = 2 + ((k - 1) % 2)
    /\ samples # <<>> =>
           LET last == samples[Len(samples)]
               speed == forceValue * 100
           IN  /\ initialVelocityVector =
                      InitialVelocityVector(speed, last.phi, last.theta)
               /\ initialVelocityVector.y * 1000 <=
                      speed * (IF last.theta = 2 THEN 866 ELSE 707)
               /\ (initialVelocityVector.y + 1) * 1000 >
                      speed * (IF last.theta = 2 THEN 866 ELSE 707)
               /\ trajectoryPoints[1] = sourcePoint

\* A call has returned after sampling the last direction of the grid.
C13_Witness ==
    /\ fpc = "returned"
    /\ Len(samples) = 40
    /\ samples[40].phi = 19
    /\ samples[40].theta = 3


\* Vector3.negate
Negated(v) == Vector3(-v.x, -v.y, -v.z)

\* C14: replacing a face's normal by its negation (same centroid) leaves
\* unchanged which trajectories intersect, where, every incident angle, and
\* the face intensity.
C14_SideInsensitive ==
    /\ samples # <<>> =>
           findIntersection(trajectoryPoints, facePoint, Negated(faceNormal))
               = intersection
    /\ fpc = "returned" =>
           calculateFaceSplashback(sourcePoint, facePoint, Negated(faceNormal),
                                   InitialVelocity(forceValue))
               = faceSplashback

\* A call on a face with a normal has returned a positive intensity, its
\* last trajectory having hit the face.
C14_Witness ==
    /\ fpc = "returned"
    /\ faceNormal # Negated(faceNormal)
    /\ intersection.found
    /\ RatLess(RatZero, faceSplashback)


C17_FaceIndexUnique ==
    pc = "returned" =>
        \A f, g \in 1..Len(results.faceData) :
            results.faceData[f].index = results.faceData[g].index => f = g

\* a number that is neither NaN nor an infinity
ValidNumber(a) == a[2] # 0

\* C18: when every face has the same intensity (maxSplashback =
\* minSplashback), every colour a run writes, the engine's vertex colours
\* and the colours the heatmap generator writes to the meshes, is a valid
\* finite number, never NaN or Infinity.
C18_ColoursValid ==
    (pc = "applied" /\ results.maxSplashback = results.minSplashback) =>
        /\ \A v \in DOMAIN results.vertexData :
               /\ ValidNumber(results.vertexData[v].color.r)
               /\ ValidNumber(results.vertexData[v].color.g)
               /\ ValidNumber(results.vertexData[v].color.b)
        /\ \A m \in DOMAIN colorAttribute :
               \A v \in DOMAIN colorAttribute[m] :
                   /\ ValidNumber(colorAttribute[m][v].r)
                   /\ ValidNumber(colorAttribute[m][v].g)
                   /\ ValidNumber(colorAttribute[m][v].b)


\* a coordinate in [-5 m, 5 m]
InCube(coordinate) == -10000000 <= coordinate /\ coordinate <= 10000000

\* C16: in every state of SourcePointManager, after any setSourcePosition
\* calls and mouse down / move / up events from the initial (0, 0, 0), each
\* coordinate of the source point lies in [-5, 5].
C16_SourceInCube ==
    /\ InCube(sourcePoint.x)
    /\ InCube(sourcePoint.y)
    /\ InCube(sourcePoint.z)

\* During a drag along the y arrow the point is at the lower limit of y, at
\* the upper limit of x and strictly inside the cube along z.
C16_Witness ==
    /\ isDragging
    /\ selectedArrow = "y-arrow"
    /\ sourcePoint = Millimetres(5000, -5000, 2500)


\* the sum of the three vertex normals of face f (from 0) of mesh m
NormalSum(m, f) ==
    LET v == VertexIndices(model[m], f)
    IN  addVectors(addVectors(model[m].normal[v[1] + 1],
                              model[m].normal[v[2] + 1]),
                   model[m].normal[v[3] + 1])

\* the faces <<m, f>> of the model
FacesOfModel ==
    UNION {{<<m, f>> : f \in 0..(MeshFaceCount(model[m]) - 1)} :
              m \in 1..Len(model)}

\* C19: a face whose vertex normals sum to the zero vector gets intensity
\* exactly 0, and minSplashback, maxSplashback and averageSplashback stay
\* valid numbers of [0, 1].
C19_DegenerateIsZero ==
    pc = "returned" =>
        /\ \A face \in FacesOfModel :
               NormalSum(face[1], face[2]) = Vector3(0, 0, 0) =>
                   FaceIntensity(face[1], face[2]) = RatZero
        /\ faceCount > 0 =>
               /\ InUnitRange(results.minSplashback)
               /\ InUnitRange(results.maxSplashback)
               /\ InUnitRange(results.averageSplashback)
               /\ IsFinite(results.minSplashback)

\* A run has returned for a model with a degenerate face and a face that
\* was hit.
C19_Witness ==
    /\ pc = "returned"
    /\ \E face \in FacesOfModel :
           NormalSum(face[1], face[2]) = Vector3(0, 0, 0)
    /\ RatLess(RatZero, results.maxSplashback)

DragStateConsistent ==
    /\ controlsEnabled = ~isDragging
    /\ isDragging => selectedArrow \in Arrows

\* C27: under any mousedown, mousemove, mouseup and mouseleave events the
\* orbit controls are enabled exactly when no drag is in progress, a drag in
\* progress has a selected arrow, a mouseup or mouseleave ends the drag, and
\* no drag starts while the loading overlay is displayed.
C27_DragProtocol ==
    [][ /\ DragStateConsistent
        /\ DragStateConsistent'
        /\ OnMouseUp => (~isDragging' /\ selectedArrow' = "null")
        /\ (loadingOverlay = "flex" /\ ~isDragging) => ~isDragging' ]_vars

\* A drag is in progress while the loading overlay is displayed.
C27_Witness ==
    /\ isDragging
    /\ ~controlsEnabled
    /\ selectedArrow = "x-arrow"
    /\ loadingOverlay = "flex"

\* C28: a mouse move during a drag leaves unchanged the two coordinates of
\* the source point that are not on the axis of the selected arrow, and
\* without a drag in progress mouse events do not move the source point
\* (only setSourcePosition does).
C28_DragAlongAxis ==
    [][ /\ OnMouseMove =>
               /\ selectedArrow # "x-arrow" => sourcePoint'.x = sourcePoint.x
               /\ selectedArrow # "y-arrow" => sourcePoint'.y = sourcePoint.y
               /\ selectedArrow # "z-arrow" => sourcePoint'.z = sourcePoint.z
        /\ (~isDragging /\ sourcePoint' # sourcePoint) => SetSourcePosition
      ]_vars

\* A drag along the z arrow has moved the point to z = -1 m, a coordinate
\* that no setSourcePosition call of the model asks for, the point being
\* off the axes.
C28_Witness ==
    /\ isDragging
    /\ selectedArrow = "z-arrow"
    /\ sourcePoint = Millimetres(2500, 5000, -1000)

\* what holds of every stored particle: it has generated at most one
\* collision event, and it is inactive once it has collided or its lifetime
\* has reached maxLifetime
ParticleStateConsistent ==
    \A k \in 1 .. Len(particles) :
        /\ particles[k].reported <= 1
        /\ particles[k].reported = 1 => ~particles[k].active
        /\ particles[k].lifetime >= particleLifetime => ~particles[k].active

\* C23: a particle generates at most one collision event; it becomes
\* inactive in the update() in which it collides or expires; an inactive
\* particle is not stepped, not reported in the collision list and not made
\* active again by any later step.
C23_OneCollisionPerParticle ==
    [][ /\ ParticleStateConsistent
        /\ ParticleStateConsistent'
        /\ \A k \in 1 .. Len(particles) :
              (k <= Len(particles') /\ ~particles[k].active) =>
                  /\ particles'[k] = particles[k]
                  /\ FluidUpdate =>
                        \A c \in 1 .. Len(collisions') :
                            collisions'[c] # particles[k].index
        /\ FluidUpdate =>
              \A c \in 1 .. Len(collisions') :
                  /\ ~particles'[collisions'[c] + 1].active
                  /\ particles'[collisions'[c] + 1].reported = 1 ]_vars

\* Of two particles one has collided and is inactive before its lifetime
\* has run out, the other is still in flight after a step.
C23_Witness ==
    /\ Len(particles) = 2
    /\ particles[1].reported = 1
    /\ ~particles[1].active
    /\ particles[1].lifetime < particleLifetime
    /\ particles[2].active
    /\ particles[2].lifetime = 1
    /\ collisions = <<>>

\* C30: the particles stored never exceed maxParticles, the index of a
\* particle is its position in the array (from 0), and only stop() removes
\* particles: any other step keeps the stored particles at their places, so
\* a full array receives no new particle until stop() empties it.
C30_ParticleBufferBounded ==
    [][ /\ Len(particles') <= maxParticles
        /\ \A k \in 1 .. Len(particles') : particles'[k].index = k - 1
        /\ \/ particles' = <<>>
           \/ /\ Len(particles') >= Len(particles)
              /\ \A k \in 1 .. Len(particles) :
                    particles'[k].index = particles[k].index
        /\ Len(particles) = maxParticles =>
              Len(particles') \in {0, maxParticles} ]_vars

\* The array is full and every particle in it is inactive, with the
\* emission clock running.
C30_Witness ==
    /\ Len(particles) = maxParticles
    /\ \A k \in 1 .. Len(particles) : ~particles[k].active
    /\ lastEmitSet
    /\ timeSinceLastEmit > 0

\* the colour lies on the line between the colours of stops s and s + 1,
\* at the place of the normalized intensity between their values
Interpolated(normalized, colour, s) ==
    LET lo == colorScale[s]
        hi == colorScale[s + 1]
        Channel(c, from, to) ==
            RatTimes(RatSub(hi.value, lo.value), c) =
                RatAdd(RatTimes(RatSub(hi.value, normalized), from),
                       RatTimes(RatSub(normalized, lo.value), to))
    IN  /\ Channel(colour.r, lo.color.r, hi.color.r)
        /\ Channel(colour.g, lo.color.g, hi.color.g)
        /\ Channel(colour.b, lo.color.b, hi.color.b)

\* C21: the ramp gives the colour of a stop at the value of the stop, and
\* between two neighbouring stops (their values included) the linear
\* interpolation of their colours, so that at a stop the piece below and
\* the piece above give the same colour.
C21_RampInterpolatesBetweenStops ==
    rampApplied =>
        /\ \A s \in 1 .. 4 :
              normalizedIntensity = colorScale[s].value =>
                  materialColor = colorScale[s].color
        /\ \A s \in 1 .. 3 :
              (/\ RatLeq(colorScale[s].value, normalizedIntensity)
               /\ RatLeq(normalizedIntensity, colorScale[s + 1].value)) =>
                  Interpolated(normalizedIntensity, materialColor, s)

\* The ramp has been applied to 1.0, the value of the last stop, and has
\* given red.
C21_Witness ==
    /\ rampApplied
    /\ normalizedIntensity = <<1, 1>>
    /\ materialColor = Color(255, 0, 0)

\* C22: once the queued animation-frame update of a heatmap-valid mesh has
\* run, the texels of every face of the mesh on which collisions have
\* accumulated a positive intensity are non-zero.
C22_TextureShowsCollisions ==
    \A u \in DOMAIN heatmapTexture :
        u \notin frameQueue =>
            \A key \in DOMAIN heatmapData :
                (/\ key[1] = u
                 /\ heatmapData[key].hits > 0
                 /\ heatmapData[key].intensity > 0) =>
                    heatmapTexture[u][key[2]] # 0

\* C29: updateUserControls, reset and init set needsFullRecalculation; the
\* flag is cleared only by an update() that recalculates, and an update()
\* with the flag set and a target model recalculates exactly once
\* (updateCounter goes up by one) and clears the flag; no recalculation
\* happens with the flag clear or without a target model; after a
\* recalculation every entry of heatmapData has hits = 0.
C29_RecalculationOnFlag ==
    [][ /\ (UpdateUserControls \/ VizReset \/ VizInit) =>
               needsFullRecalculation'
        /\ (needsFullRecalculation /\ ~needsFullRecalculation') =>
               updateCounter' = updateCounter + 1
        /\ (VizUpdate /\ needsFullRecalculation /\ targetModel # "null") =>
               /\ updateCounter' = updateCounter + 1
               /\ ~needsFullRecalculation'
        /\ updateCounter' # updateCounter =>
               /\ needsFullRecalculation
               /\ targetModel # "null"
               /\ updateCounter' = updateCounter + 1
               /\ \A key \in DOMAIN heatmapData' :
                      heatmapData'[key].hits = 0 ]_vars

\* A recalculation has run after a collision was recorded: the callback of
\* the collision is still queued, and no entry has a hit left.
C29_Witness ==
    /\ updateCounter = 2
    /\ ~needsFullRecalculation
    /\ frameQueue = {"a"}
    /\ DOMAIN heatmapData = AllKeys
    /\ \A key \in DOMAIN heatmapData : heatmapData[key].hits = 0

\* C24: SimulationRunner.runSimulation returns the results exactly when
\* neither the splashback computation nor the heatmap application threw;
\* otherwise it returns nothing and throws an Error whose message is
\* 'Simulation failed: ' followed by the message of what was thrown, or the
\* parameter-conflict message when that was a TypeError about an
\* assignment to a constant variable.
C24_ResultOnlyWithoutError ==
    runnerInputs # <<>> =>
        LET simulate == runnerInputs[1]
            heatmap == runnerInputs[2]
            error == IF simulate.threw THEN simulate ELSE heatmap
        IN  /\ runnerResult.returned = "results" <=>
                   (~simulate.threw /\ ~heatmap.threw)
            /\ runnerResult.returned = "results" =>
                   ~runnerResult.thrown.threw
            /\ (simulate.threw \/ heatmap.threw) =>
                   /\ runnerResult.returned = "undefined"
                   /\ runnerResult.thrown.threw
                   /\ runnerResult.thrown.type = "Error"
                   /\ runnerResult.thrown.message =
                          IF /\ error.type = "TypeError"
                             /\ Includes(error.message,
                                         "Assignment to constant variable")
                          THEN ConflictMessage
                          ELSE <<"Simulation failed: ">> \o error.message

\* The computation completed and the heatmap application threw: nothing is
\* returned and the error carries the prefixed message.
C24_Witness ==
    /\ runnerInputs =
           <<Completed,
             Throws("TypeError", <<"Cannot read properties of undefined">>)>>
    /\ runnerResult.returned = "undefined"
    /\ runnerResult.thrown.message =
           <<"Simulation failed: ", "Cannot read properties of undefined">>
    /\ stats = <<"Simulation failed: ", "Simulation failed: ",
                 "Cannot read properties of undefined">>

\* C25: the loading overlay is shown for as long as a requested run has not
\* yet executed.
C25_OverlayShownWhileRunPending ==
    timers # <<>> => loadingOverlay = "flex"

\* C26: once no load is in flight and the load of the file selected last
\* has been resolved, the current model is the one loaded from that file.
C26_LastSelectedModelIsCurrent ==
    (pendingLoads = <<>> /\ loadedLast) => currentModel = lastSelected

=============================================================================
